---- MODULE Spec2Model ----
(***************************************************************************)
(* Model of the media-access core of NoSubVod-Desktop                      *)
(* (src-tauri/src/server/twitch.rs): the TTL cache, the variant proxy      *)
(* registry, the variant relay, the VOD and live master manifest           *)
(* generators, the recommendation feed, the batched live-status lookup     *)
(* and the persisted store (src-tauri/src/server/history.rs).              *)
(*                                                                         *)
(* Strings are sequences of one-character strings, so that prefix, suffix, *)
(* case and percent-encoding operations are computed as the code computes  *)
(* them.  Error messages are one-element sequences.                        *)
(***************************************************************************)
EXTENDS Integers, Sequences, FiniteSets, TLC

VARIABLES
    now,            \* the monotonic clock (Instant::now()), in seconds
    variant_cache,  \* TwitchService.variant_cache: key -> Entry
    uuid_seed,      \* state of the random source behind Uuid::new_v4()
    uuid_count,     \* number of UUIDs drawn so far
    reg_log,        \* history: token -> [url, at, stored] of its registration
    op,             \* the last completed operation [name, arg]
    result,         \* its result [ok, val]
    fetched,        \* the URL of the GET sent by the last operation (<<>>: none)
    cache,          \* TimedCache.inner of a cache exercised on its own
    cache_log,      \* history: key -> [value, at, ttl] of the last set
    lock,           \* the RwLock of that cache: [writer, readers]
    pc,             \* thread -> its position in get or set
    tl,             \* thread -> the arguments and locals of its call
    worder,         \* history: the threads in the order they took the write lock
    gen,            \* the manifest generation request in progress (VOD or live)
    feed,           \* the feed or live-status request in progress
    hist            \* the persisted store: memory, disk and the calls in progress

regVars   == <<variant_cache, uuid_seed, uuid_count, reg_log>>
cacheVars == <<cache, cache_log>>
concVars  == <<lock, pc, tl, worder>>
moreVars  == <<feed, hist>>
vars      == <<now, regVars, op, result, fetched, cacheVars, concVars, gen, moreVars>>

\* the variables the registry specification leaves alone
outsideRegistry == <<cacheVars, concVars, gen, moreVars>>
\* the variables the cache specifications leave alone
outsideCache == <<regVars, fetched, gen, moreVars>>
\* the variables the VOD manifest specification leaves alone
outsideVod == <<cacheVars, concVars, moreVars>>

\* ---------------------------------------------------------------------------
\* Bounds
\* ---------------------------------------------------------------------------

\* number of clock steps of the registry specification
MaxTicks == 2
\* number of proxy tokens the registry specification may issue
MaxUuids == 2
\* number of clock steps of the cache specification
MaxCacheTicks == 3
\* number of clock steps of the concurrent cache specification
MaxConcTicks == 1

\* seconds per clock step of the registry specification
RegistryTick == 150

\* ---------------------------------------------------------------------------
\* Characters and strings
\* ---------------------------------------------------------------------------

UpperAlpha == <<"A","B","C","D","E","F","G","H","I","J","K","L","M",
                "N","O","P","Q","R","S","T","U","V","W","X","Y","Z">>
LowerAlpha == <<"a","b","c","d","e","f","g","h","i","j","k","l","m",
                "n","o","p","q","r","s","t","u","v","w","x","y","z">>
Digits     == {"0","1","2","3","4","5","6","7","8","9"}
UpperSet   == {UpperAlpha[i] : i \in 1..26}
LowerSet   == {LowerAlpha[i] : i \in 1..26}

\* char::to_lowercase on ASCII
ToLowerChar(c) ==
    IF c \in UpperSet
    THEN LowerAlpha[CHOOSE i \in 1..26 : UpperAlpha[i] = c]
    ELSE c

\* str::to_lowercase
to_lowercase(s) == [i \in 1..Len(s) |-> ToLowerChar(s[i])]

\* str::starts_with
starts_with(s, p) == Len(p) <= Len(s) /\ SubSeq(s, 1, Len(p)) = p

\* str::ends_with
ends_with(s, p) ==
    Len(p) <= Len(s) /\ SubSeq(s, Len(s) - Len(p) + 1, Len(s)) = p

\* str::contains
contains(s, p) ==
    \E i \in 1..(Len(s) - Len(p) + 1) : SubSeq(s, i, i + Len(p) - 1) = p

\* str::find of a pattern: index of the first occurrence from position from, 0 if none
FindFrom(s, p, from) ==
    LET I == {i \in from..(Len(s) - Len(p) + 1) : SubSeq(s, i, i + Len(p) - 1) = p}
    IN  IF I = {} THEN 0 ELSE CHOOSE i \in I : \A j \in I : i <= j

\* first position from `from` holding one of the characters of cs, 0 if none
FindAnyFrom(s, cs, from) ==
    LET I == {i \in from..Len(s) : s[i] \in cs}
    IN  IF I = {} THEN 0 ELSE CHOOSE i \in I : \A j \in I : i <= j

\* str::trim (ASCII white space)
WhiteSpace == {" ", "\t", "\n", "\r"}
trim(s) ==
    LET I == {i \in 1..Len(s) : s[i] \notin WhiteSpace}
    IN  IF I = {} THEN <<>>
        ELSE SubSeq(s, CHOOSE i \in I : \A j \in I : i <= j,
                       CHOOSE i \in I : \A j \in I : i >= j)

\* concatenation of a sequence of strings with a separator (slice::join)
RECURSIVE join(_, _)
join(ss, sep) ==
    IF ss = <<>> THEN <<>>
    ELSE IF Len(ss) = 1 THEN ss[1]
    ELSE ss[1] \o sep \o join(Tail(ss), sep)

\* str::split on one character
RECURSIVE split(_, _)
split(s, c) ==
    LET i == FindAnyFrom(s, {c}, 1)
    IN  IF i = 0 THEN <<s>>
        ELSE <<SubSeq(s, 1, i - 1)>> \o split(SubSeq(s, i + 1, Len(s)), c)

\* n copies of character c
Rep(c, n) == [i \in 1..n |-> c]

\* ---------------------------------------------------------------------------
\* Percent-encoding
\* ---------------------------------------------------------------------------

\* the bytes outside [A-Za-z0-9] that occur in the model, with their hex digits
PctTable == << <<" ","2","0">>, <<"#","2","3">>, <<"%","2","5">>,
               <<"&","2","6">>, <<"+","2","B">>, <<"/","2","F">>,
               <<":","3","A">>, <<"=","3","D">>, <<"?","3","F">>,
               <<"\"","2","2">>, <<"'","2","7">>, <<"<","3","C">>,
               <<">","3","E">>, <<"-","2","D">>, <<".","2","E">>,
               <<"_","5","F">>, <<"~","7","E">> >>

is_ascii_alphanumeric(c) == c \in Digits \cup UpperSet \cup LowerSet

\* format!("%{:02X}", b)
PctOf(c) ==
    LET I == {i \in 1..Len(PctTable) : PctTable[i][1] = c}
    IN  IF I = {} THEN <<"%", "?", "?">>
        ELSE LET i == CHOOSE j \in I : TRUE
             IN  <<"%", PctTable[i][2], PctTable[i][3]>>

urlencoding_simple(s) ==
    LET Enc(c) == IF is_ascii_alphanumeric(c) \/ c \in {"-", "_", ".", "~"}
                  THEN <<c>> ELSE PctOf(c)
    IN  join([i \in 1..Len(s) |-> Enc(s[i])], <<>>)

\* the character a %XY escape stands for (<<>> when XY is not a known byte)
PctChar(x, y) ==
    LET I == {i \in 1..Len(PctTable) :
                 PctTable[i][2] = x /\ to_lowercase(<<PctTable[i][3]>>) = to_lowercase(<<y>>)}
    IN  IF I = {} THEN <<>> ELSE <<PctTable[CHOOSE j \in I : TRUE][1]>>

\* form_urlencoded decoding of one name or value: '+' is a space, %XY a byte
RECURSIVE FormDecode(_)
FormDecode(s) ==
    IF s = <<>> THEN <<>>
    ELSE IF s[1] = "+" THEN <<" ">> \o FormDecode(Tail(s))
    ELSE IF s[1] = "%" /\ Len(s) >= 3 /\ PctChar(s[2], s[3]) # <<>>
         THEN PctChar(s[2], s[3]) \o FormDecode(SubSeq(s, 4, Len(s)))
    ELSE <<s[1]>> \o FormDecode(Tail(s))

\* Url::query_pairs: the decoded (name, value) pairs of a query string
query_pairs(q) ==
    LET parts == SelectSeq(split(q, "&"), LAMBDA p : p # <<>>)
        Pair(p) == LET i == FindAnyFrom(p, {"="}, 1)
                   IN  IF i = 0 THEN <<FormDecode(p), <<>> >>
                       ELSE <<FormDecode(SubSeq(p, 1, i - 1)),
                              FormDecode(SubSeq(p, i + 1, Len(p)))>>
    IN  [i \in 1..Len(parts) |-> Pair(parts[i])]

\* the query percent-encode set the URL type applies when a query is set
UrlQueryEncode(q) ==
    LET Enc(c) == IF c \in {" ", "\"", "#", "<", ">", "'"} THEN PctOf(c) ELSE <<c>>
    IN  join([i \in 1..Len(q) |-> Enc(q[i])], <<>>)

\* ---------------------------------------------------------------------------
\* URLs (reqwest::Url): parsing and serialisation
\* ---------------------------------------------------------------------------

InvalidUrl == [valid |-> FALSE, scheme |-> <<>>, userinfo |-> <<>>, host |-> <<>>,
               port |-> <<>>, path |-> <<>>, has_query |-> FALSE, query |-> <<>>]

\* Url::parse of an absolute URL without fragment.  The scheme and the host
\* are lower-cased; a special scheme ignores the number of slashes before the
\* authority and requires a non-empty host; dot segments do not occur in the
\* inputs of the model.
UrlParse(s) ==
    LET colon == FindAnyFrom(s, {":"}, 1)
        schemeRaw == SubSeq(s, 1, colon - 1)
        scheme == to_lowercase(schemeRaw)
        schemeOk == /\ colon > 1
                    /\ schemeRaw[1] \in UpperSet \cup LowerSet
                    /\ \A i \in 1..Len(schemeRaw) :
                          is_ascii_alphanumeric(schemeRaw[i]) \/ schemeRaw[i] \in {"+", "-", "."}
        notSlash == {i \in (colon + 1)..Len(s) : s[i] \notin {"/", "\\"}}
        authStart == IF notSlash = {} THEN Len(s) + 1
                     ELSE CHOOSE i \in notSlash : \A j \in notSlash : i <= j
        authEnd0 == FindAnyFrom(s, {"/", "?", "\\"}, authStart)
        authEnd == IF authEnd0 = 0 THEN Len(s) + 1 ELSE authEnd0
        authority == SubSeq(s, authStart, authEnd - 1)
        ats == {i \in 1..Len(authority) : authority[i] = "@"}
        lastAt == IF ats = {} THEN 0 ELSE CHOOSE i \in ats : \A j \in ats : i >= j
        userinfo == SubSeq(authority, 1, lastAt - 1)
        hostport == SubSeq(authority, lastAt + 1, Len(authority))
        pcolon == FindAnyFrom(hostport, {":"}, 1)
        host == to_lowercase(IF pcolon = 0 THEN hostport ELSE SubSeq(hostport, 1, pcolon - 1))
        port == IF pcolon = 0 THEN <<>> ELSE SubSeq(hostport, pcolon + 1, Len(hostport))
        qmark == FindAnyFrom(s, {"?"}, authEnd)
        pathEnd == IF qmark = 0 THEN Len(s) + 1 ELSE qmark
        pathRaw == SubSeq(s, authEnd, pathEnd - 1)
    IN  IF ~schemeOk \/ scheme \notin {<<"h","t","t","p","s">>, <<"h","t","t","p">>}
        THEN IF schemeOk
             THEN [InvalidUrl EXCEPT !.valid = TRUE, !.scheme = scheme,
                                     !.path = SubSeq(s, colon + 1, Len(s))]
             ELSE InvalidUrl
        ELSE IF host = <<>> THEN InvalidUrl
        ELSE [valid |-> TRUE, scheme |-> scheme, userinfo |-> userinfo, host |-> host,
              port |-> port, path |-> IF pathRaw = <<>> THEN <<"/">> ELSE pathRaw,
              has_query |-> qmark # 0,
              query |-> IF qmark = 0 THEN <<>> ELSE SubSeq(s, qmark + 1, Len(s))]

\* Url::to_string
UrlToString(u) ==
    u.scheme \o <<":", "/", "/">>
    \o (IF u.userinfo = <<>> THEN <<>> ELSE u.userinfo \o <<"@">>)
    \o u.host
    \o (IF u.port = <<>> THEN <<>> ELSE <<":">> \o u.port)
    \o u.path
    \o (IF u.has_query THEN <<"?">> \o u.query ELSE <<>>)

\* Url::set_query
set_query(u, has, q) == [u EXCEPT !.has_query = has, !.query = UrlQueryEncode(q)]

\* ---------------------------------------------------------------------------
\* Variant proxy validation
\* ---------------------------------------------------------------------------

Ok(v)  == [ok |-> TRUE, val |-> v]
Err(m) == [ok |-> FALSE, val |-> m]

HTTPS == <<"h","t","t","p","s">>
TTVNW == <<"t","t","v","n","w",".","n","e","t">>
TWITCH == <<"t","w","i","t","c","h",".","t","v">>
JTVNW == <<"j","t","v","n","w",".","n","e","t">>
CLOUDFRONT == <<"c","l","o","u","d","f","r","o","n","t",".","n","e","t">>
M3U8 == <<".","m","3","u","8">>

allowed_exact == {TTVNW, TWITCH, JTVNW, CLOUDFRONT}
allowed_suffixes == {<<".">> \o h : h \in allowed_exact}

allowed_params ==
    { <<"a","l","l","o","w","_","s","o","u","r","c","e">>,
      <<"a","l","l","o","w","_","a","u","d","i","o","_","o","n","l","y">>,
      <<"f","a","s","t","_","b","r","e","a","d">>,
      <<"p","l","a","y","l","i","s","t","_","i","n","c","l","u","d","e","_",
        "f","r","a","m","e","r","a","t","e">>,
      <<"p","l","a","y","e","r","_","b","a","c","k","e","n","d">>,
      <<"p","l","a","y","e","r">>,
      <<"p">>,
      <<"s","i","g">>,
      <<"t","o","k","e","n">> }

\* mutation: the suffixes lack their leading dot
is_allowed_host_nodot(hostname) ==
    \/ hostname \in allowed_exact
    \/ \E s \in allowed_exact : ends_with(hostname, s)

\* the host test of validate_variant_target_url
is_allowed_host(hostname) ==
    \/ hostname \in allowed_exact
    \/ \E s \in allowed_suffixes : ends_with(hostname, s)

\* mutation: the prefixes are searched anywhere in the path
is_allowed_path_anywhere(path) ==
    LET is_live_hls == /\ contains(path, <<"/","a","p","i","/","c","h","a","n","n","e","l",
                                           "/","h","l","s","/">>)
                       /\ ends_with(path, M3U8)
        is_vod_path == contains(path, <<"/","v","o","d","/">>)
        is_chunked == contains(path, <<"/","c","h","u","n","k","e","d","/">>)
        is_m3u8 == ends_with(path, M3U8)
    IN  ~(~is_live_hls /\ ~is_vod_path /\ ~is_chunked /\ ~is_m3u8)

\* the path test of validate_variant_target_url
is_allowed_path(path) ==
    LET is_live_hls == /\ contains(path, <<"/","a","p","i","/","c","h","a","n","n","e","l",
                                           "/","h","l","s","/">>)
                       /\ ends_with(path, M3U8)
        is_vod_path == starts_with(path, <<"/","v","o","d","/">>)
        is_chunked == starts_with(path, <<"/","c","h","u","n","k","e","d","/">>)
        is_m3u8 == ends_with(path, M3U8)
    IN  ~(~is_live_hls /\ ~is_vod_path /\ ~is_chunked /\ ~is_m3u8)

\* mutation: parameter names are compared without regard to case
sanitize_query_nocase(parsed) ==
    LET pairs == SelectSeq(query_pairs(parsed.query),
                           LAMBDA kv : to_lowercase(kv[1]) \in allowed_params)
        qs == join([i \in 1..Len(pairs) |->
                       urlencoding_simple(pairs[i][1]) \o <<"=">>
                       \o urlencoding_simple(pairs[i][2])], <<"&">>)
    IN  IF pairs = <<>> THEN set_query(parsed, FALSE, <<>>)
        ELSE set_query(parsed, TRUE, qs)

\* the query rewriting of validate_variant_target_url
sanitize_query(parsed) ==
    LET pairs == SelectSeq(query_pairs(parsed.query), LAMBDA kv : kv[1] \in allowed_params)
        qs == join([i \in 1..Len(pairs) |->
                       urlencoding_simple(pairs[i][1]) \o <<"=">>
                       \o urlencoding_simple(pairs[i][2])], <<"&">>)
    IN  IF pairs = <<>> THEN set_query(parsed, FALSE, <<>>)
        ELSE set_query(parsed, TRUE, qs)

\* validate_variant_target_url after Url::parse
validate_parsed(parsed) ==
    LET hostname == to_lowercase(parsed.host)
        path == to_lowercase(parsed.path)
    IN  IF ~parsed.valid THEN Err(<<"Invalid URL">>)
        ELSE IF parsed.scheme # HTTPS THEN Err(<<"Only HTTPS URLs are allowed">>)
        ELSE IF ~is_allowed_host(hostname) THEN Err(<<"Disallowed host: ">> \o hostname)
        ELSE IF ~is_allowed_path(path) THEN Err(<<"Disallowed target path">>)
        ELSE Ok(UrlToString(sanitize_query(parsed)))

validate_variant_target_url(url) == validate_parsed(UrlParse(url))

\* ---------------------------------------------------------------------------
\* TimedCache
\* ---------------------------------------------------------------------------

None == [some |-> FALSE, val |-> <<>>]
Some(v) == [some |-> TRUE, val |-> v]

\* TimedCache::new
TimedCache_new == <<>>

\* mutation: the expiry is not looked at
TimedCache_get_noexpiry(inner, key, t) ==
    IF key \in DOMAIN inner THEN Some(inner[key].value) ELSE None

\* mutation: an entry is still served at the instant it expires
TimedCache_get_inclusive(inner, key, t) ==
    IF key \in DOMAIN inner /\ inner[key].expires >= t
    THEN Some(inner[key].value)
    ELSE None

\* TimedCache::get at instant t
TimedCache_get(inner, key, t) ==
    IF key \in DOMAIN inner /\ inner[key].expires > t
    THEN Some(inner[key].value)
    ELSE None

\* mutation: an existing entry is kept (insert only when the key is absent)
TimedCache_set_keep(inner, key, value, ttl_secs, t) ==
    [k \in DOMAIN inner \cup {key} |->
        IF k = key /\ key \notin DOMAIN inner
        THEN [value |-> value, expires |-> t + ttl_secs] ELSE inner[k]]

\* TimedCache::set at instant t
TimedCache_set(inner, key, value, ttl_secs, t) ==
    [k \in DOMAIN inner \cup {key} |->
        IF k = key THEN [value |-> value, expires |-> t + ttl_secs] ELSE inner[k]]

\* ---------------------------------------------------------------------------
\* Inputs of the registry specification
\* ---------------------------------------------------------------------------

\* https://usher.ttvnw.net/api/channel/hls/a.m3u8?sig=abc&evil=1
UrlLiveHls ==
    <<"h","t","t","p","s",":","/","/","u","s","h","e","r",".","t","t","v","n","w",".","n",
          "e","t","/","a","p","i","/","c","h","a","n","n","e","l","/","h","l","s","/","a",
          ".","m","3","u","8","?","s","i","g","=","a","b","c","&","e","v","i","l","=","1">>

\* https://ttvnw.net/vod/x.ts?evil=1&SIG=2
UrlVodExact ==
    <<"h","t","t","p","s",":","/","/","t","t","v","n","w",".","n","e","t","/","v","o","d",
          "/","x",".","t","s","?","e","v","i","l","=","1","&","S","I","G","=","2">>

\* HTTPS://D2.CloudFront.NET/Chunked/a.ts?p=1&x=2&sig=c+d&p=%2F
UrlChunkedMixed ==
    <<"H","T","T","P","S",":","/","/","D","2",".","C","l","o","u","d","F","r","o","n","t",
          ".","N","E","T","/","C","h","u","n","k","e","d","/","a",".","t","s","?","p","=",
          "1","&","x","=","2","&","s","i","g","=","c","+","d","&","p","=","%","2","F">>

\* http://ttvnw.net/vod/x.m3u8
UrlHttp ==
    <<"h","t","t","p",":","/","/","t","t","v","n","w",".","n","e","t","/","v","o","d","/",
          "x",".","m","3","u","8">>

\* https://evil.com/vod/x.m3u8
UrlEvil ==
    <<"h","t","t","p","s",":","/","/","e","v","i","l",".","c","o","m","/","v","o","d","/",
          "x",".","m","3","u","8">>

\* https://evilttvnw.net/vod/x.m3u8
UrlEvilPrefix ==
    <<"h","t","t","p","s",":","/","/","e","v","i","l","t","t","v","n","w",".","n","e","t",
          "/","v","o","d","/","x",".","m","3","u","8">>

\* https://ttvnw.net.evil.com/vod/x.m3u8
UrlEvilSuffix ==
    <<"h","t","t","p","s",":","/","/","t","t","v","n","w",".","n","e","t",".","e","v","i",
          "l",".","c","o","m","/","v","o","d","/","x",".","m","3","u","8">>

\* https://:443/vod/x.m3u8
UrlEmptyHost ==
    <<"h","t","t","p","s",":","/","/",":","4","4","3","/","v","o","d","/","x",".","m","3",
          "u","8">>

\* https://usher.ttvnw.net@evil.com/vod/x.m3u8
UrlUserinfo ==
    <<"h","t","t","p","s",":","/","/","u","s","h","e","r",".","t","t","v","n","w",".","n",
          "e","t","@","e","v","i","l",".","c","o","m","/","v","o","d","/","x",".","m","3",
          "u","8">>

\* https://video.twitch.tv/evil/vod/x.ts
UrlBadPath ==
    <<"h","t","t","p","s",":","/","/","v","i","d","e","o",".","t","w","i","t","c","h",".",
      "t","v","/","e","v","i","l","/","v","o","d","/","x",".","t","s">>

\* usher.ttvnw.net/vod/x.m3u8
UrlNoScheme ==
    <<"u","s","h","e","r",".","t","t","v","n","w",".","n","e","t","/","v","o","d","/","x",
          ".","m","3","u","8">>

RegisterUrls ==
    {UrlLiveHls, UrlVodExact, UrlChunkedMixed, UrlHttp, UrlEvil,
     UrlEvilPrefix, UrlEvilSuffix, UrlEmptyHost, UrlUserinfo, UrlBadPath, UrlNoScheme}

\* ---------------------------------------------------------------------------
\* Proxy tokens
\* ---------------------------------------------------------------------------

HexLower == Digits \cup {"a", "b", "c", "d", "e", "f"}
HexPool == <<"a", "b", "c", "d", "e", "f", "0", "1", "2", "3", "4", "5", "6", "7", "8", "9">>

\* the hyphenated lower-case text of a version-4 UUID whose random digits are all d
MkUuid(d, version, variant) ==
    Rep(d, 8) \o <<"-">> \o Rep(d, 4) \o <<"-", version>> \o Rep(d, 3)
    \o <<"-", variant>> \o Rep(d, 3) \o <<"-">> \o Rep(d, 12)

\* Uuid::new_v4().to_string(): the n-th draw of the random source started at seed
new_v4(seed, n) ==
    LET i == ((seed + n) % Len(HexPool)) + 1
    IN  MkUuid(HexPool[i], "4", <<"8", "9", "a", "b">>[(i % 4) + 1])

\* mutation: the expression is matched without regard to case
uuid_re_is_match_nocase(s) ==
    /\ Len(s) = 36
    /\ \A i \in 1..36 :
          IF i \in {9, 14, 19, 24} THEN s[i] = "-"
          ELSE IF i = 15 THEN s[i] \in {"1", "2", "3", "4", "5"}
          ELSE IF i = 20 THEN to_lowercase(<<s[i]>>)[1] \in {"8", "9", "a", "b"}
          ELSE to_lowercase(<<s[i]>>)[1] \in HexLower

\* the regular expression of resolve_variant_proxy_target
uuid_re_is_match(s) ==
    /\ Len(s) = 36
    /\ \A i \in 1..36 :
          IF i \in {9, 14, 19, 24} THEN s[i] = "-"
          ELSE IF i = 15 THEN s[i] \in {"1", "2", "3", "4", "5"}
          ELSE IF i = 20 THEN s[i] \in {"8", "9", "a", "b"}
          ELSE s[i] \in HexLower

\* the initial states of the random source
UuidSeeds == {0, 5}

\* mutation: the token is left out of the cache key
VariantKey_constant(proxy_id) == <<"variant_proxy_">>

\* format!("variant_proxy_{proxy_id}")
VariantKey(proxy_id) == <<"variant_proxy_">> \o proxy_id

VARIANT_TTL == 300

\* ---------------------------------------------------------------------------
\* VOD candidate URLs
\* ---------------------------------------------------------------------------

\* one day in seconds and in hundredths of a second (the unit of days_diff)
DAY_SECS == 24 * 60 * 60
DAY == DAY_SECS * 100

STORYBOARDS == <<"s","t","o","r","y","b","o","a","r","d","s">>

\* parse_vod_url_info once the scheme separator is found at position sep
parse_after_scheme(after_scheme, domain_end) ==
    IF domain_end = 0 THEN Err(<<"No path separator found">>)
    ELSE LET domain == SubSeq(after_scheme, 1, domain_end - 1)
             parts == split(SubSeq(after_scheme, domain_end, Len(after_scheme)), "/")
             hits == {i \in 1..Len(parts) : contains(parts[i], STORYBOARDS)}
             storyboard_idx == IF hits = {} THEN 0
                               ELSE CHOOSE i \in hits : \A j \in hits : i <= j
         IN  IF storyboard_idx = 0 THEN Err(<<"Cannot find storyboards in URL">>)
             ELSE IF storyboard_idx = 1 THEN Err(<<"storyboards at root">>)
             ELSE IF parts[storyboard_idx - 1] = <<>> THEN Err(<<"Empty vodSpecialID">>)
             ELSE Ok([domain |-> domain, vod_special_id |-> parts[storyboard_idx - 1]])

\* the text after the scheme separator found at position sep
after_separator(url, sep) ==
    parse_after_scheme(SubSeq(url, sep + 2, Len(url)),
                       FindAnyFrom(SubSeq(url, sep + 2, Len(url)), {"/"}, 1))

\* parse_vod_url_info
parse_vod_url_info(seek_previews_url) ==
    IF FindFrom(seek_previews_url, <<"/", "/">>, 1) = 0
    THEN Err(<<"No '//' found in URL">>)
    ELSE after_separator(seek_previews_url, FindFrom(seek_previews_url, <<"/", "/">>, 1))

HIGHLIGHT == <<"h","i","g","h","l","i","g","h","t">>
UPLOAD == <<"u","p","l","o","a","d">>
ARCHIVE == <<"a","r","c","h","i","v","e">>
INDEX_DVR == <<"i","n","d","e","x","-","d","v","r",".","m","3","u","8">>

\* mutation: an upload takes the owner form whatever its age
build_stream_url_upload_owner(domain, vod_special_id, res_key, vod_id, broadcast_type, days_diff, channel_login) ==
    IF broadcast_type = HIGHLIGHT
    THEN HTTPS \o <<":", "/", "/">> \o domain \o <<"/">> \o vod_special_id \o <<"/">>
         \o res_key \o <<"/">> \o HIGHLIGHT \o <<"-">> \o vod_id \o M3U8
    ELSE IF broadcast_type = UPLOAD
    THEN HTTPS \o <<":", "/", "/">> \o domain \o <<"/">> \o channel_login \o <<"/">>
         \o vod_id \o <<"/">> \o vod_special_id \o <<"/">> \o res_key \o <<"/">>
         \o INDEX_DVR
    ELSE HTTPS \o <<":", "/", "/">> \o domain \o <<"/">> \o vod_special_id \o <<"/">>
         \o res_key \o <<"/">> \o INDEX_DVR

\* build_stream_url
build_stream_url(domain, vod_special_id, res_key, vod_id, broadcast_type, days_diff, channel_login) ==
    IF broadcast_type = HIGHLIGHT
    THEN HTTPS \o <<":", "/", "/">> \o domain \o <<"/">> \o vod_special_id \o <<"/">>
         \o res_key \o <<"/">> \o HIGHLIGHT \o <<"-">> \o vod_id \o M3U8
    ELSE IF broadcast_type = UPLOAD /\ days_diff > 7 * DAY
    THEN HTTPS \o <<":", "/", "/">> \o domain \o <<"/">> \o channel_login \o <<"/">>
         \o vod_id \o <<"/">> \o vod_special_id \o <<"/">> \o res_key \o <<"/">>
         \o INDEX_DVR
    ELSE HTTPS \o <<":", "/", "/">> \o domain \o <<"/">> \o vod_special_id \o <<"/">>
         \o res_key \o <<"/">> \o INDEX_DVR

\* the resolution descriptors of generate_master_playlist
resolutions ==
    << [res_key |-> <<"c","h","u","n","k","e","d">>,
        resolution |-> <<"1","9","2","0","x","1","0","8","0">>, fps |-> 60],
       [res_key |-> <<"1","0","8","0","p","6","0">>,
        resolution |-> <<"1","9","2","0","x","1","0","8","0">>, fps |-> 60],
       [res_key |-> <<"7","2","0","p","6","0">>,
        resolution |-> <<"1","2","8","0","x","7","2","0">>, fps |-> 60],
       [res_key |-> <<"4","8","0","p","3","0">>,
        resolution |-> <<"8","5","4","x","4","8","0">>, fps |-> 30],
       [res_key |-> <<"3","6","0","p","3","0">>,
        resolution |-> <<"6","4","0","x","3","6","0">>, fps |-> 30],
       [res_key |-> <<"1","6","0","p","3","0">>,
        resolution |-> <<"2","8","4","x","1","6","0">>, fps |-> 30] >>

CHUNKED == <<"c","h","u","n","k","e","d">>
\* https://d2.cloudfront.net/abc/storyboards/1-info.json
SeekCloudfront ==
    <<"h","t","t","p","s",":","/","/","d","2",".","c","l","o","u","d","f","r","o","n",
      "t",".","n","e","t","/","a","b","c","/","s","t","o","r","y","b","o","a","r","d",
      "s","/","1","-","i","n","f","o",".","j","s","o","n">>

\* https://evil.com/abc/storyboards/1-info.json
SeekEvil ==
    <<"h","t","t","p","s",":","/","/","e","v","i","l",".","c","o","m","/","a","b","c",
      "/","s","t","o","r","y","b","o","a","r","d","s","/","1","-","i","n","f","o",".",
      "j","s","o","n">>

\* https://d2.cloudfront.net/abc/thumbs/1.json
SeekNoStoryboards ==
    <<"h","t","t","p","s",":","/","/","d","2",".","c","l","o","u","d","f","r","o","n",
      "t",".","n","e","t","/","a","b","c","/","t","h","u","m","b","s","/","1",".","j",
      "s","o","n">>


\* the outcomes of the video query: a failed request, no such video, or the
\* fields of the video (each None when the field is missing or no string)
Video(seek, login, btype, created) ==
    [kind |-> "video", seekPreviewsURL |-> seek, login |-> login,
     broadcastType |-> btype, createdAt |-> created]

\* createdAt texts: the instant the request is served at, 8 days before it,
\* one second less than 7 days before it, and 7 days before it with a
\* fraction of a second
CreatedNow == <<"2","0","2","4","-","0","1","-","1","0","T","0","0",":","0","0",":","0","0","Z">>
CreatedEightDays == <<"2","0","2","4","-","0","1","-","0","2","T","0","0",":","0","0",":","0","0","Z">>
CreatedUnderSeven == <<"2","0","2","4","-","0","1","-","0","3","T","0","0",":","0","0",":","0","1","Z">>
CreatedHalfSecond == <<"2","0","2","4","-","0","1","-","0","3","T","0","0",":","0","0",":","0","0",".","5","0","0","Z">>

GqlResponses ==
    { [kind |-> "error"],
      [kind |-> "null"],
      Video(Some(SeekCloudfront), Some(<<"b","o","b">>), None, Some(CreatedNow)),
      Video(Some(SeekCloudfront), Some(<<"b","o","b">>),
            Some(<<"H","I","G","H","L","I","G","H","T">>), Some(CreatedEightDays)),
      Video(Some(SeekCloudfront), Some(<<"b","o","b">>), Some(UPLOAD), Some(CreatedEightDays)),
      Video(Some(SeekCloudfront), Some(<<"b","o","b">>), Some(UPLOAD), Some(CreatedUnderSeven)),
      Video(Some(SeekCloudfront), Some(<<"b","o","b">>), Some(UPLOAD), Some(CreatedHalfSecond)),
      Video(Some(SeekCloudfront), Some(<<"b","o","b">>), Some(UPLOAD), None),
      Video(Some(SeekEvil), Some(<<"b","o","b">>), None, Some(CreatedNow)),
      Video(Some(SeekNoStoryboards), Some(<<"b","o","b">>), None, Some(CreatedNow)),
      Video(None, Some(<<"b","o","b">>), None, Some(CreatedNow)),
      Video(Some(SeekCloudfront), None, None, Some(CreatedNow)) }

VodIds == { <<" ", "4", "2">>, <<"4", "/", "2">> }

\* the candidate URLs the model can build
VodCandidateUrls ==
    { build_stream_url(d, <<"a","b","c">>, resolutions[i].res_key, <<"4","2">>, b, 8 * DAY,
                       <<"b","o","b">>) :
        d \in { <<"d","2",".","c","l","o","u","d","f","r","o","n","t",".","n","e","t">>,
                <<"e","v","i","l",".","c","o","m">> },
        i \in 1..Len(resolutions),
        b \in {ARCHIVE, HIGHLIGHT, UPLOAD} }

\* ---------------------------------------------------------------------------
\* Live master manifest: the source URL and the references of the manifests
\* ---------------------------------------------------------------------------

\* str::rfind of one character, 0 if none
rfind(s, c) ==
    LET I == {i \in 1..Len(s) : s[i] = c}
    IN  IF I = {} THEN 0 ELSE CHOOSE i \in I : \A j \in I : i >= j

HTTP == <<"h","t","t","p">>

\* str::trim_start_matches of one character
trim_start_matches(s, c) ==
    LET I == {i \in 1..Len(s) : s[i] # c}
    IN  IF I = {} THEN <<>> ELSE SubSeq(s, CHOOSE i \in I : \A j \in I : i <= j, Len(s))

\* make_absolute_url
make_absolute_url(url, base) ==
    IF starts_with(url, HTTP \o <<":", "/", "/">>) \/ starts_with(url, HTTPS \o <<":", "/", "/">>)
    THEN url
    ELSE SubSeq(base, 1, IF rfind(base, "/") = 0 THEN Len(base) ELSE rfind(base, "/") - 1)
         \o <<"/">> \o trim_start_matches(url, "/")

DecDigits == <<"0", "1", "2", "3", "4", "5", "6", "7", "8", "9">>

\* the decimal text of a natural number
RECURSIVE ToDecimal(_)
ToDecimal(n) ==
    IF n < 10 THEN <<DecDigits[n + 1]>>
    ELSE ToDecimal(n \div 10) \o <<DecDigits[(n % 10) + 1]>>

\* the value of a hexadecimal digit
HexValue(c) ==
    IF c \in Digits
    THEN (CHOOSE i \in 1..10 : DecDigits[i] = c) - 1
    ELSE 9 + (CHOOSE i \in 1..6 : LowerAlpha[i] = c)

\* rand_u32: the first four bytes of a fresh UUID, least significant first
rand_u32(seed, n) ==
    LET id == new_v4(seed, n)
    IN  [k \in 1..4 |-> 16 * HexValue(id[2 * k - 1]) + HexValue(id[2 * k])]

\* the remainder of the u32 of bytes b by m (m below 2^23, computed without
\* leaving 32-bit arithmetic)
u32_rem(b, m) ==
    (((b[1] + 256 * b[2] + 65536 * b[3]) % m) + (((16777216 % m) * b[4]) % m)) % m

\* allow_source=true&allow_audio_only=true&fast_bread=true&playlist_include_framerate=true&player_backend=mediaplayer&player=twitchweb&p=
LIVE_PARAMS ==
    <<"a","l","l","o","w","_","s","o","u","r","c","e","=","t","r","u","e","&","a","l",
      "l","o","w","_","a","u","d","i","o","_","o","n","l","y","=","t","r","u","e","&",
      "f","a","s","t","_","b","r","e","a","d","=","t","r","u","e","&","p","l","a","y",
      "l","i","s","t","_","i","n","c","l","u","d","e","_","f","r","a","m","e","r","a",
      "t","e","=","t","r","u","e","&","p","l","a","y","e","r","_","b","a","c","k","e",
      "n","d","=","m","e","d","i","a","p","l","a","y","e","r","&","p","l","a","y","e",
      "r","=","t","w","i","t","c","h","w","e","b","&","p","=">>

\* https://usher.ttvnw.net/api/channel/hls/
USHER ==
    <<"h","t","t","p","s",":","/","/","u","s","h","e","r",".","t","t","v","n","w",".",
      "n","e","t","/","a","p","i","/","c","h","a","n","n","e","l","/","h","l","s","/">>

\* the source URL of generate_live_master_playlist; token = <<value, signature>>
live_source_url(channel_login, random_p, token) ==
    USHER \o urlencoding_simple(channel_login) \o M3U8 \o <<"?">> \o LIVE_PARAMS
    \o ToDecimal(random_p) \o <<"&", "s", "i", "g", "=">> \o urlencoding_simple(token[2])
    \o <<"&", "t", "o", "k", "e", "n", "=">> \o urlencoding_simple(token[1])

LiveChannel == <<"b", "o", "b">>
\* the playback grant: its value and its signature
LiveToken == << <<"{", "/", "}">>, <<"5", "f">> >>

\* #E
LineHeader ==
    <<"#","E">>

\* #M:URI="a.m3u8"
LineAttrRelative ==
    <<"#","M",":","U","R","I","=","\"","a",".","m","3","u","8","\"">>

\* #M:URI="k.key",N="1"
LineAttrRejected ==
    <<"#","M",":","U","R","I","=","\"","k",".","k","e","y","\"",",","N","=","\"","1",
      "\"">>

\*  #M:URI="/a.m3u8",URI="https://evil.com/k"\r
LineAttrTwo ==
    <<" ","#","M",":","U","R","I","=","\"","/","a",".","m","3","u","8","\"",",","U","R",
      "I","=","\"","h","t","t","p","s",":","/","/","e","v","i","l",".","c","o","m","/",
      "k","\"","\r">>

\* #M:URI="a
LineAttrOpen ==
    <<"#","M",":","U","R","I","=","\"","a">>

\* v/1.m3u8
LineBareRelative ==
    <<"v","/","1",".","m","3","u","8">>

\*  s.ts\r
LineBareRejected ==
    <<" ","s",".","t","s","\r">>

\* https://evil.com/x.m3u8
LineBareAbsolute ==
    <<"h","t","t","p","s",":","/","/","e","v","i","l",".","c","o","m","/","x",".","m",
      "3","u","8">>

\*  
LineBlank ==
    <<" ">>

\* the manifests served upstream
LiveMasters ==
    { join(<<LineHeader, LineAttrRelative, LineBareRelative>>, <<"\n">>),
      join(<<LineHeader, LineAttrRejected, LineBareAbsolute, <<>> >>, <<"\n">>),
      join(<<LineHeader, LineAttrTwo, LineBareRejected>>, <<"\n">>),
      join(<<LineAttrOpen, LineBlank, LineBareRelative>>, <<"\n">>) }

\* the references of the manifests
LiveRefs ==
    { <<"a",".","m","3","u","8">>,
      <<"k",".","k","e","y">>,
      <<"/","a",".","m","3","u","8">>,
      <<"h","t","t","p","s",":","/","/","e","v","i","l",".","c","o","m","/","k">>,
      <<"v","/","1",".","m","3","u","8">>,
      <<"s",".","t","s">>,
      <<"h","t","t","p","s",":","/","/","e","v","i","l",".","c","o","m","/","x",".","m","3","u","8">> }

\* the absolute URLs the references of the manifests resolve to
LiveRefUrls ==
    { make_absolute_url(r, live_source_url(LiveChannel, u32_rem(rand_u32(seed, 0), 1000000), LiveToken)) :
        r \in LiveRefs, seed \in UuidSeeds }

\* validate_variant_target_url on the URLs of the model, computed once
ValidateMemo ==
    [u \in RegisterUrls \cup VodCandidateUrls \cup LiveRefUrls |->
        validate_variant_target_url(u)]

validated(url) == ValidateMemo[url]

\* register_variant_proxy_target: the result and the cache after the call
register_sanitized(vc, sanitized, proxy_id, t) ==
    IF ~sanitized.ok
    THEN [res |-> sanitized, cache |-> vc, drawn |-> 0]
    ELSE [res |-> Ok(proxy_id),
          cache |-> TimedCache_set(vc, VariantKey(proxy_id), sanitized.val, VARIANT_TTL, t),
          drawn |-> 1]

register_variant_proxy_target(vc, target_url, seed, n, t) ==
    register_sanitized(vc, validated(target_url), new_v4(seed, n), t)

\* resolve_variant_proxy_target
resolve_variant_proxy_target(vc, proxy_id, t) ==
    LET normalized == trim(proxy_id)
        hit == TimedCache_get(vc, VariantKey(normalized), t)
    IN  IF ~uuid_re_is_match(normalized) THEN Err(<<"Invalid variant proxy id">>)
        ELSE IF hit.some THEN Ok(hit.val)
        ELSE Err(<<"Variant proxy target not found or expired">>)

\* ---------------------------------------------------------------------------
\* Variant relay
\* ---------------------------------------------------------------------------

\* str::replace
RECURSIVE replace(_, _, _)
replace(s, from, to) ==
    LET i == FindFrom(s, from, 1)
    IN  IF i = 0 THEN s
        ELSE SubSeq(s, 1, i - 1) \o to
             \o replace(SubSeq(s, i + Len(from), Len(s)), from, to)

trim_end_matches(s, c) ==
    LET I == {i \in 1..Len(s) : s[i] # c}
    IN  IF I = {} THEN <<>> ELSE SubSeq(s, 1, CHOOSE i \in I : \A j \in I : i >= j)

URI_ATTR == <<"U","R","I","=","\"">>

\* the body rewriting of proxy_variant_playlist
RelayRewrite(target_url, text) ==
    LET body == replace(text, <<"-","u","n","m","u","t","e","d">>, <<"-","m","u","t","e","d">>)
        slash == rfind(target_url, "/")
        base_url == IF slash = 0 THEN target_url ELSE SubSeq(target_url, 1, slash)
        Line(line) ==
            LET l == trim_end_matches(line, "\r")
            IN  IF l = <<>> \/ starts_with(l, <<"#">>)
                THEN IF contains(l, URI_ATTR) /\ ~contains(l, URI_ATTR \o HTTP)
                     THEN replace(l, URI_ATTR, URI_ATTR \o base_url)
                     ELSE l
                ELSE IF ~starts_with(l, HTTP) THEN base_url \o l
                ELSE l
        ls == split(body, "\n")
    IN  join([i \in 1..Len(ls) |-> Line(ls[i])], <<"\n">>)

\* a media playlist served upstream
PlaylistBody ==
    <<"#","E","\n","#","M",":","U","R","I","=","\"","i","\"","\r","\n","1","-","u","n",
      "m","u","t","e","d",".","t","s","\n","h","t","t","p",":","/","/","a","/","2","\n">>

\* the body rewriting on the targets and the bodies of the model, computed once
RelayMemo ==
    [u \in {v.val : v \in {w \in {validated(x) : x \in RegisterUrls \cup VodCandidateUrls} :
                             w.ok}},
     b \in {PlaylistBody} |-> RelayRewrite(u, b)]

rewritten(target_url, text) ==
    IF <<target_url, text>> \in DOMAIN RelayMemo THEN RelayMemo[target_url, text]
    ELSE RelayRewrite(target_url, text)

\* proxy_variant_playlist once the token is resolved
relay_target(target_url, resp) ==
    IF ~target_url.ok THEN [res |-> target_url, get |-> <<>>]
    ELSE IF resp.kind = "error"
         THEN [res |-> Err(<<"error sending request">>), get |-> target_url.val]
    ELSE IF resp.kind = "status"
         THEN [res |-> Err(<<"Upstream HTTP ", "404">>), get |-> target_url.val]
    ELSE [res |-> Ok(rewritten(target_url.val, resp.body)), get |-> target_url.val]

\* proxy_variant_playlist: the result and the URL the GET was sent to
proxy_variant_playlist(vc, proxy_id, resp, t) ==
    relay_target(resolve_variant_proxy_target(vc, proxy_id, t), resp)

RelayResponses ==
    { [kind |-> "error", body |-> <<>>],
      [kind |-> "status", body |-> <<>>],
      [kind |-> "ok", body |-> PlaylistBody] }

\* the identifiers clients present to resolve and to the relay
ResolveIds(seed) ==
    LET t0 == new_v4(seed, 0)
    IN  {new_v4(seed, n) : n \in 0..(MaxUuids - 1)}
        \cup { <<" ">> \o t0 \o <<"\n">>,
               [t0 EXCEPT ![15] = "1"],
               [i \in 1..36 |-> IF t0[i] \in LowerSet
                                THEN UpperAlpha[CHOOSE j \in 1..26 : LowerAlpha[j] = t0[i]]
                                ELSE t0[i]],
               SubSeq(t0, 1, 35),
               <<>> }

\* ---------------------------------------------------------------------------
\* VOD master manifest generation
\* ---------------------------------------------------------------------------

\* gql_escape: JSON string escaping of the characters of the model
gql_escape(value) ==
    replace(replace(value, <<"\\">>, <<"\\", "\\">>), <<"\"">>, <<"\\", "\"">>)

\* create_serving_id: a version-4 UUID without its hyphens
create_serving_id(seed, n) == SelectSeq(new_v4(seed, n), LAMBDA c : c # "-")

\* the regular expression ^[a-zA-Z0-9_-]+$ of generate_master_playlist
vod_id_re_is_match(s) ==
    /\ s # <<>>
    /\ \A i \in 1..Len(s) : is_ascii_alphanumeric(s[i]) \/ s[i] \in {"_", "-"}

AVC1 == "avc1.4D001E"
HEV1 == "hev1.1.6.L93.B0"

\* the codec chosen from the init-0.mp4 request of is_valid_quality
init_codec(init) ==
    IF init.kind = "body"
    THEN IF contains(init.text, <<"h","e","v","1">>) THEN HEV1 ELSE AVC1
    ELSE HEV1

\* is_valid_quality on the outcome of the probe request
is_valid_quality(resp) ==
    IF resp.kind # "body" THEN None
    ELSE IF contains(resp.text, <<".","t","s">>) THEN Some(AVC1)
    ELSE IF contains(resp.text, <<".","m","p","4">>) THEN Some(init_codec(resp.init))
    ELSE None

\* the outcome of a request: a time-out, a network error, a non-2xx status,
\* an unreadable body or a body
NoInit == [kind |-> "error", text |-> <<>>]
ProbeOutcome(kind, text, init) == [kind |-> kind, text |-> text, init |-> init]

ProbeResponses ==
    { ProbeOutcome("timeout", <<>>, NoInit),
      ProbeOutcome("error", <<>>, NoInit),
      ProbeOutcome("status", <<>>, NoInit),
      ProbeOutcome("unreadable", <<>>, NoInit),
      ProbeOutcome("body", <<"a",".","t","s">>, NoInit),
      ProbeOutcome("body", <<"a",".","t","s"," ","b",".","m","p","4">>, NoInit),
      ProbeOutcome("body", <<"#","E">>, NoInit),
      ProbeOutcome("body", <<"a",".","m","p","4">>,
                   [kind |-> "body", text |-> <<"h","e","v","1">>]),
      ProbeOutcome("body", <<"a",".","m","p","4">>,
                   [kind |-> "body", text |-> <<"a","v","c","1">>]),
      ProbeOutcome("body", <<"a",".","m","p","4">>, [kind |-> "unreadable", text |-> <<>>]),
      ProbeOutcome("body", <<"a",".","m","p","4">>, [kind |-> "timeout", text |-> <<>>]) }

START_BANDWIDTH == 8534030
BANDWIDTH_STEP == 100

\* u64::saturating_sub
saturating_sub(a, b) == IF a >= b THEN a - b ELSE 0

\* a line of the playlist: its tag and its attributes in order
Line(tag, attrs) == [tag |-> tag, attrs |-> attrs]

\* the first two lines of the playlist
playlist_header(serving_id) ==
    << Line("#EXTM3U", <<>>),
       Line("#EXT-X-TWITCH-INFO",
            << <<"ORIGIN", "s3">>, <<"B", "false">>, <<"REGION", "EU">>,
               <<"USER-IP", "127.0.0.1">>, <<"SERVING-ID", serving_id>>,
               <<"CLUSTER", "cloudfront_vod">>, <<"USER-COUNTRY", "BE">>,
               <<"MANIFEST-CLUSTER", "cloudfront_vod">> >>) >>

\* the quality name of a resolution descriptor
quality_of(r) ==
    IF r.res_key = CHUNKED
    THEN (IF Len(split(r.resolution, "x")) >= 2 THEN split(r.resolution, "x")[2]
          ELSE <<"1","0","8","0">>) \o <<"p">>
    ELSE r.res_key

PROXY_PATH == <<"/api/stream/variant.m3u8?id=">>

\* the three lines pushed for an included variant
variant_lines(r, quality, enabled, codec, start_bandwidth, proxy_id) ==
    << Line("#EXT-X-MEDIA",
            << <<"TYPE", "VIDEO">>, <<"GROUP-ID", quality>>, <<"NAME", quality>>,
               <<"AUTOSELECT", enabled>>, <<"DEFAULT", enabled>> >>),
       Line("#EXT-X-STREAM-INF",
            << <<"BANDWIDTH", start_bandwidth>>, <<"CODECS", <<codec, "mp4a.40.2">> >>,
               <<"RESOLUTION", r.resolution>>, <<"VIDEO", quality>>,
               <<"FRAME-RATE", r.fps>> >>),
       Line("", << <<"URI", PROXY_PATH \o urlencoding_simple(proxy_id)>> >>) >>

\* mutation: the bandwidth also drops for a resolution that is skipped
loop_body_always_steps(g, r, codec, reg) ==
    IF codec.some /\ reg.res.ok
    THEN [g EXCEPT !.i = g.i + 1,
                   !.playlist = g.playlist \o
                       variant_lines(r, quality_of(r),
                                     IF r.res_key = CHUNKED THEN "YES" ELSE "NO",
                                     codec.val, g.start_bandwidth, reg.res.val),
                   !.start_bandwidth = saturating_sub(g.start_bandwidth, BANDWIDTH_STEP)]
    ELSE [g EXCEPT !.i = g.i + 1,
                   !.start_bandwidth = saturating_sub(g.start_bandwidth, BANDWIDTH_STEP)]

\* mutation: a probe that finds no codec ends the loop
loop_body_break_on_failure(g, r, codec, reg) ==
    IF codec.some /\ reg.res.ok
    THEN [g EXCEPT !.i = g.i + 1,
                   !.playlist = g.playlist \o
                       variant_lines(r, quality_of(r),
                                     IF r.res_key = CHUNKED THEN "YES" ELSE "NO",
                                     codec.val, g.start_bandwidth, reg.res.val),
                   !.start_bandwidth = saturating_sub(g.start_bandwidth, BANDWIDTH_STEP)]
    ELSE IF codec.some THEN [g EXCEPT !.i = g.i + 1]
    ELSE [g EXCEPT !.i = Len(resolutions) + 1]

\* mutation: a variant is emitted whenever the probe found a codec, whether
\* or not its registration was accepted
loop_body_emit_rejected(g, r, codec, reg) ==
    IF codec.some
    THEN [g EXCEPT !.i = g.i + 1,
                   !.playlist = g.playlist \o
                       variant_lines(r, quality_of(r),
                                     IF r.res_key = CHUNKED THEN "YES" ELSE "NO",
                                     codec.val, g.start_bandwidth, reg.res.val),
                   !.start_bandwidth = saturating_sub(g.start_bandwidth, BANDWIDTH_STEP)]
    ELSE [g EXCEPT !.i = g.i + 1]

\* one iteration of the loop over the resolutions: the probe returned codec
\* and, when it succeeded, the registration returned reg
loop_body(g, r, codec, reg) ==
    IF codec.some /\ reg.res.ok
    THEN [g EXCEPT !.i = g.i + 1,
                   !.playlist = g.playlist \o
                       variant_lines(r, quality_of(r),
                                     IF r.res_key = CHUNKED THEN "YES" ELSE "NO",
                                     codec.val, g.start_bandwidth, reg.res.val),
                   !.start_bandwidth = saturating_sub(g.start_bandwidth, BANDWIDTH_STEP)]
    ELSE [g EXCEPT !.i = g.i + 1]

\* ---------------------------------------------------------------------------
\* Live master manifest rewriting
\* ---------------------------------------------------------------------------

\* the registration of one reference of the manifest: st carries the registry,
\* the number of tokens drawn and (history) refs, the references met so far
register_reference(st, r, abs_url, kind, i) ==
    [proxy |-> IF r.res.ok THEN PROXY_PATH \o urlencoding_simple(r.res.val) ELSE abs_url,
     ok |-> r.res.ok,
     st |-> [vc |-> r.cache, n |-> st.n + r.drawn,
             refs |-> Append(st.refs, [line |-> i, abs |-> abs_url, ok |-> r.res.ok,
                                       kind |-> kind,
                                       id |-> IF r.res.ok THEN r.res.val ELSE <<>>])]]

\* the while loop of rewrite_master_with_proxy over the URI="..." attributes
\* of new_line, cursor being the (1-based) position the scan is at
RECURSIVE rewrite_uris(_, _, _, _, _, _, _, _)
RECURSIVE uri_replaced(_, _, _, _, _, _, _, _, _, _)

\* the attribute value from abs_start to close - 1 was registered as reg
uri_replaced(new_line, cursor, res_text, abs_start, close, reg, base, seed, t, i) ==
    rewrite_uris(new_line, close,
                 res_text \o SubSeq(new_line, cursor, abs_start - 1) \o reg.proxy,
                 reg.st, base, seed, t, i)

rewrite_uris(new_line, cursor, res_text, st, base, seed, t, i) ==
    IF cursor > Len(new_line) THEN [text |-> res_text, st |-> st]
    ELSE LET start == FindFrom(new_line, URI_ATTR, cursor)
             abs_start == start + 5
             close == IF start = 0 THEN 0 ELSE FindAnyFrom(new_line, {"\""}, abs_start)
             abs_url == make_absolute_url(SubSeq(new_line, abs_start, close - 1), base)
         IN  IF close = 0
             THEN [text |-> res_text \o SubSeq(new_line, cursor, Len(new_line)), st |-> st]
             ELSE uri_replaced(new_line, cursor, res_text, abs_start, close,
                               register_reference(
                                   st,
                                   register_variant_proxy_target(st.vc, abs_url, seed, st.n, t),
                                   abs_url, "attr", i),
                               base, seed, t, i)

\* the line a bare reference becomes once its registration returned reg
bare_replaced(raw, reg) ==
    IF reg.ok THEN [text |-> reg.proxy, st |-> reg.st]
    ELSE [text |-> raw, st |-> reg.st]

\* the reference of a bare line, registered
bare_registered(raw, abs_url, st, seed, t, i) ==
    bare_replaced(raw,
                  register_reference(
                      st, register_variant_proxy_target(st.vc, abs_url, seed, st.n, t),
                      abs_url, "bare", i))

\* the branch of rewrite_master_with_proxy for a line that is not a tag
rewrite_bare(raw, line, st, base, seed, t, i) ==
    bare_registered(raw, make_absolute_url(line, base), st, seed, t, i)

\* the body of the for loop of rewrite_master_with_proxy on line i (raw: the
\* line without its trailing carriage returns)
rewrite_line(raw, line, st, base, seed, t, i) ==
    IF line = <<>> THEN [text |-> raw, st |-> st]
    ELSE IF starts_with(line, <<"#">>) /\ contains(line, URI_ATTR)
    THEN rewrite_uris(line, 1, <<>>, st, base, seed, t, i)
    ELSE IF ~starts_with(line, <<"#">>)
    THEN rewrite_bare(raw, line, st, base, seed, t, i)
    ELSE [text |-> raw, st |-> st]

\* the for loop of rewrite_master_with_proxy from line i on
RECURSIVE rewrite_lines(_, _, _, _, _, _, _)
RECURSIVE line_rewritten(_, _, _, _, _, _, _)

\* line i became r.text
line_rewritten(lines, i, out, r, base, seed, t) ==
    rewrite_lines(lines, i + 1, Append(out, r.text), r.st, base, seed, t)

rewrite_lines(lines, i, out, st, base, seed, t) ==
    IF i > Len(lines) THEN [lines |-> out, st |-> st]
    ELSE line_rewritten(lines, i, out,
                        rewrite_line(lines[i], trim(lines[i]), st, base, seed, t, i),
                        base, seed, t)

\* the lines of the manifest without their trailing carriage returns
master_lines(master) ==
    [i \in 1..Len(split(master, "\n")) |-> trim_end_matches(split(master, "\n")[i], "\r")]

\* the text the rewritten lines join to, the registry and the number of
\* tokens drawn afterwards, and (history) the references met
master_rewritten(r) ==
    [text |-> join(r.lines, <<"\n">>), cache |-> r.st.vc, n |-> r.st.n, refs |-> r.st.refs]

\* rewrite_master_with_proxy
rewrite_master_with_proxy(master, source_master_url, vc, seed, n, t) ==
    master_rewritten(rewrite_lines(master_lines(master), 1, <<>>,
                                   [vc |-> vc, n |-> n, refs |-> <<>>],
                                   source_master_url, seed, t))

\* ---------------------------------------------------------------------------
\* The registry specification: register, resolve, relay, clock
\* ---------------------------------------------------------------------------

NoOp == [name |-> "init", arg |-> <<>>]

NoThread == "none"
Threads == {"t1", "t2", "t3"}

CacheIdle ==
    /\ cache = TimedCache_new
    /\ cache_log = <<>>
    /\ lock = [writer |-> NoThread, readers |-> {}]
    /\ pc = [t \in Threads |-> "idle"]
    /\ tl = [t \in Threads |-> [key |-> "", value |-> "", ttl |-> 0, expires |-> 0,
                                 seen_expires |-> 0, ret |-> None]]
    /\ worder = <<>>
    /\ feed = [pc |-> "idle"]
    /\ hist = [pc |-> "idle"]

GenIdle == [pc |-> "idle"]

Init ==
    /\ now = 0
    /\ variant_cache = TimedCache_new
    /\ uuid_seed \in UuidSeeds
    /\ uuid_count = 0
    /\ reg_log = <<>>
    /\ op = NoOp
    /\ result = Ok(<<>>)
    /\ fetched = <<>>
    /\ gen = GenIdle
    /\ CacheIdle

\* the state after a call of register_variant_proxy_target that returned r
Registered(u, r) ==
    /\ uuid_count + r.drawn <= MaxUuids
    /\ variant_cache' = r.cache
    /\ uuid_count' = uuid_count + r.drawn
    /\ reg_log' = IF r.res.ok
                  THEN [k \in DOMAIN reg_log \cup {r.res.val} |->
                           IF k = r.res.val
                           THEN [url |-> u, at |-> now,
                                 stored |-> r.cache[VariantKey(k)].value]
                           ELSE reg_log[k]]
                  ELSE reg_log
    /\ op' = [name |-> "register", arg |-> u]
    /\ result' = r.res
    /\ fetched' = <<>>
    /\ UNCHANGED <<now, uuid_seed, outsideRegistry>>

Register(u) ==
    Registered(u, register_variant_proxy_target(variant_cache, u, uuid_seed, uuid_count, now))

Resolve(id) ==
    /\ op' = [name |-> "resolve", arg |-> id]
    /\ result' = resolve_variant_proxy_target(variant_cache, id, now)
    /\ fetched' = <<>>
    /\ UNCHANGED <<now, regVars, outsideRegistry>>

\* the state after a call of proxy_variant_playlist that returned r
Relayed(id, r) ==
    /\ op' = [name |-> "relay", arg |-> id]
    /\ result' = r.res
    /\ fetched' = r.get
    /\ UNCHANGED <<now, regVars, outsideRegistry>>

Relay(id, resp) == Relayed(id, proxy_variant_playlist(variant_cache, id, resp, now))

Tick ==
    /\ now < MaxTicks * RegistryTick
    /\ now' = now + RegistryTick
    /\ op' = [name |-> "tick", arg |-> <<>>]
    /\ result' = Ok(<<>>)
    /\ fetched' = <<>>
    /\ UNCHANGED <<regVars, outsideRegistry>>

DoRegister == \E u \in RegisterUrls : Register(u)
DoResolve == \E id \in ResolveIds(uuid_seed) : Resolve(id)
DoRelay == \E id \in ResolveIds(uuid_seed), resp \in RelayResponses : Relay(id, resp)

Next ==
    \/ DoRegister
    \/ DoResolve
    \/ DoRelay
    \/ Tick

Spec == Init /\ [][Next]_vars

\* ---------------------------------------------------------------------------
\* Properties of the variant proxy registry
\* ---------------------------------------------------------------------------

\* the four validation rules, as the specification states them
RuleScheme(u) == u.valid /\ u.scheme = <<"h","t","t","p","s">>

RuleHost(u) ==
    LET h == to_lowercase(u.host)
    IN  \E d \in {TTVNW, TWITCH, JTVNW, CLOUDFRONT} :
           h = d \/ ends_with(h, <<".">> \o d)

RulePath(u) ==
    LET p == to_lowercase(u.path)
    IN  \/ starts_with(p, <<"/","v","o","d","/">>)
        \/ starts_with(p, <<"/","c","h","u","n","k","e","d","/">>)
        \/ ends_with(p, <<".","m","3","u","8">>)

AllowedName(k) == k \in allowed_params

RuleQuery(u) ==
    LET qp == query_pairs(u.query)
    IN  \A i \in 1..Len(qp) : AllowedName(qp[i][1])

SatisfiesRules(url) ==
    LET u == UrlParse(url)
    IN  RuleScheme(u) /\ RuleHost(u) /\ RulePath(u) /\ RuleQuery(u)

\* the allow-list of register: scheme, host and path
SatisfiesAllowList(url) ==
    LET u == UrlParse(url)
    IN  RuleScheme(u) /\ RuleHost(u) /\ RulePath(u)

\* s is the sanitized form of url: the same URL with its query reduced to the
\* allow-listed parameters, in their order and with their values
IsSanitizedFormOf(s, url) ==
    LET u == UrlParse(url)
        r == UrlParse(s)
        kept == SelectSeq(query_pairs(u.query), LAMBDA kv : AllowedName(kv[1]))
    IN  /\ r.valid
        /\ r.scheme = u.scheme /\ r.userinfo = u.userinfo /\ r.host = u.host
        /\ r.port = u.port /\ r.path = u.path
        /\ query_pairs(r.query) = kept
        /\ r.has_query = (kept # <<>>)

\* C1: every URL stored in the registry, every URL resolve returns and every
\* URL the relay sends a GET to satisfies the four validation rules.
C1_OnlyValidatedUrls ==
    /\ \A k \in DOMAIN variant_cache : SatisfiesRules(variant_cache[k].value)
    /\ (op.name = "resolve" /\ result.ok) => SatisfiesRules(result.val)
    /\ fetched # <<>> => SatisfiesRules(fetched)

\* the relay has fetched the target of a registered token
C1_Witness ==
    /\ op.name = "relay"
    /\ fetched # <<>>
    /\ result.ok

\* C2: register succeeds on every URL that satisfies the allow-list, and
\* resolve of a token before its TTL elapses returns the sanitized form of the
\* URL it was registered for, whatever was registered in between.
C2_ResolveOfRegister ==
    /\ (op.name = "register" /\ SatisfiesAllowList(op.arg)) =>
          /\ result.ok
          /\ result.val \in DOMAIN reg_log
          /\ reg_log[result.val].url = op.arg
    /\ (op.name = "resolve" /\ op.arg \in DOMAIN reg_log
           /\ now < reg_log[op.arg].at + 300) =>
          /\ result.ok
          /\ IsSanitizedFormOf(result.val, reg_log[op.arg].url)

\* the first token is resolved after a second URL was registered
C2_Witness ==
    /\ op.name = "resolve"
    /\ op.arg = new_v4(uuid_seed, 0)
    /\ uuid_count >= 2
    /\ reg_log[new_v4(uuid_seed, 1)].url # reg_log[op.arg].url
    /\ result.ok

\* C3: register succeeds only on an https URL whose lower-cased host is one of
\* the four domains or a dot-subdomain of one; all other hosts are refused.
C3_HostAndScheme ==
    op.name = "register" =>
        /\ result.ok => (RuleScheme(UrlParse(op.arg)) /\ RuleHost(UrlParse(op.arg)))
        /\ op.arg \in {UrlEvil, UrlEvilPrefix, UrlEvilSuffix, UrlEmptyHost,
                       UrlUserinfo, UrlHttp} => ~result.ok

\* register was refused for a host that only ends with an allowed domain
C3_Witness ==
    /\ op.name = "register"
    /\ op.arg = UrlEvilPrefix
    /\ ~result.ok

\* C4: the URL stored by register keeps exactly the allow-listed query
\* parameters of the input, in order and with their values, and has no query
\* string when none is kept.
C4_QuerySanitized ==
    (op.name = "register" /\ result.ok) =>
        LET stored == variant_cache[VariantKey(result.val)].value
            inPairs == query_pairs(UrlParse(op.arg).query)
            kept == SelectSeq(inPairs, LAMBDA kv : AllowedName(kv[1]))
        IN  /\ query_pairs(UrlParse(stored).query) = kept
            /\ kept = <<>> => (~UrlParse(stored).has_query /\ ~contains(stored, <<"?">>))
            /\ op.arg = UrlLiveHls =>
                  UrlParse(stored).query = <<"s","i","g","=","a","b","c">>

\* a URL with an allowed and a foreign parameter has been registered
C4_Witness ==
    /\ op.name = "register"
    /\ result.ok
    /\ op.arg = UrlLiveHls

\* C5: resolve never changes the registry; before 300 seconds have elapsed
\* since registration it returns the stored URL, afterwards it fails with
\* "not found or expired".
C5_ReadsDoNotConsume ==
    [][ (op'.name = "resolve" /\ op'.arg \in DOMAIN reg_log) =>
           /\ variant_cache' = variant_cache
           /\ IF now' < reg_log[op'.arg].at + 300
              THEN result' = Ok(reg_log[op'.arg].stored)
              ELSE result' = Err(<<"Variant proxy target not found or expired">>) ]_vars

\* a token is resolved again, successfully, some time after a first resolve
C5_Witness ==
    /\ op.name = "resolve"
    /\ op.arg \in DOMAIN reg_log
    /\ now > reg_log[op.arg].at
    /\ result.ok

\* the textual grammar of a version-4 UUID
IsUuidV4Text(s) ==
    /\ Len(s) = 36
    /\ \A i \in 1..36 :
          IF i \in {9, 14, 19, 24} THEN s[i] = "-"
          ELSE IF i = 15 THEN s[i] = "4"
          ELSE IF i = 20 THEN s[i] \in {"8", "9", "a", "b", "A", "B"}
          ELSE s[i] \in Digits \cup {"a", "b", "c", "d", "e", "f"}
                               \cup {"A", "B", "C", "D", "E", "F"}

\* C6 as stated: a token that does not match the UUID v4 grammar is refused
\* with the validation error and never yields a URL.
C6_Original ==
    (op.name = "resolve" /\ ~IsUuidV4Text(op.arg)) =>
        result = Err(<<"Invalid variant proxy id">>)

\* the grammar resolve checks: lower-case, version digit 1 to 5
IsUuidText(s) ==
    /\ Len(s) = 36
    /\ \A i \in 1..36 :
          IF i \in {9, 14, 19, 24} THEN s[i] = "-"
          ELSE IF i = 15 THEN s[i] \in {"1", "2", "3", "4", "5"}
          ELSE IF i = 20 THEN s[i] \in {"8", "9", "a", "b"}
          ELSE s[i] \in Digits \cup {"a", "b", "c", "d", "e", "f"}

\* C6 amended: resolve trims the token; a token whose trimmed form does not
\* match the lower-case UUID grammar (version digit 1 to 5) is refused with
\* the validation error, and a token whose trimmed form matches is looked up.
C6_TrimmedGrammar ==
    op.name = "resolve" =>
        IF IsUuidText(trim(op.arg))
        THEN result # Err(<<"Invalid variant proxy id">>)
        ELSE result = Err(<<"Invalid variant proxy id">>)

\* a malformed token was presented while the registry held a live target
C6_Witness ==
    /\ op.name = "resolve"
    /\ ~IsUuidText(trim(op.arg))
    /\ \E k \in DOMAIN variant_cache : variant_cache[k].expires > now
    /\ ~result.ok

\* ---------------------------------------------------------------------------
\* The cache specification: get, set and the clock on one TimedCache
\* ---------------------------------------------------------------------------

CacheKeys == {"k1", "k2"}
CacheValues == {"v1", "v2"}
CacheTtls == {0, 1, 2}

InitCache ==
    /\ now = 0
    /\ variant_cache = TimedCache_new
    /\ uuid_seed = 0
    /\ uuid_count = 0
    /\ reg_log = <<>>
    /\ op = [name |-> "init"]
    /\ result = None
    /\ fetched = <<>>
    /\ gen = GenIdle
    /\ CacheIdle

CacheGet(key) ==
    /\ op' = [name |-> "get", key |-> key]
    /\ result' = TimedCache_get(cache, key, now)
    /\ UNCHANGED <<now, cacheVars, concVars, outsideCache>>

CacheSet(key, value, ttl_secs) ==
    /\ cache' = TimedCache_set(cache, key, value, ttl_secs, now)
    /\ cache_log' = [k \in DOMAIN cache_log \cup {key} |->
                        IF k = key THEN [value |-> value, at |-> now, ttl |-> ttl_secs]
                        ELSE cache_log[k]]
    /\ op' = [name |-> "set", key |-> key, value |-> value, ttl |-> ttl_secs,
              prev |-> IF key \notin DOMAIN cache THEN "absent"
                       ELSE IF cache[key].expires > now THEN "live" ELSE "expired",
              prev_expires |-> IF key \in DOMAIN cache THEN cache[key].expires ELSE 0]
    /\ result' = None
    /\ UNCHANGED <<now, concVars, outsideCache>>

CacheTick ==
    /\ now < MaxCacheTicks
    /\ now' = now + 1
    /\ op' = [name |-> "tick"]
    /\ result' = None
    /\ UNCHANGED <<cacheVars, concVars, outsideCache>>

DoCacheGet == \E k \in CacheKeys : CacheGet(k)
DoCacheSet == \E k \in CacheKeys, v \in CacheValues, ttl \in CacheTtls : CacheSet(k, v, ttl)

NextCache ==
    \/ DoCacheGet
    \/ DoCacheSet
    \/ CacheTick

SpecCache == InitCache /\ [][NextCache]_vars

\* C7: get(k) returns v exactly when the most recent set on k stored v and the
\* clock is strictly before that set's instant plus its ttl; a never-set key
\* and an expired key return nothing.
C7_GetIffLive ==
    op.name = "get" =>
        IF op.key \in DOMAIN cache_log
           /\ now < cache_log[op.key].at + cache_log[op.key].ttl
        THEN result.some /\ result.val = cache_log[op.key].value
        ELSE ~result.some

\* a key set with ttl 1 is read after its TTL has elapsed and nothing is returned
C7_Witness ==
    /\ op.name = "get"
    /\ op.key \in DOMAIN cache_log
    /\ cache_log[op.key].ttl = 1
    /\ now >= cache_log[op.key].at + 1
    /\ ~result.some

\* C8: set(k, v, ttl) replaces the value and the expiry of k whatever the
\* previous entry was, leaves all other keys alone, and k is then readable
\* until now + ttl.
C8_SetOverwrites ==
    [][ op'.name = "set" =>
           /\ DOMAIN cache' = DOMAIN cache \cup {op'.key}
           /\ cache'[op'.key] = [value |-> op'.value, expires |-> now + op'.ttl]
           /\ \A k \in DOMAIN cache : k # op'.key => cache'[k] = cache[k]
           /\ TimedCache_get(cache', op'.key, now').some = (op'.ttl > 0)
           /\ op'.ttl > 0 => TimedCache_get(cache', op'.key, now').val = op'.value ]_vars

\* a live entry was overwritten by a set with a shorter life
C8_Witness ==
    /\ op.name = "set"
    /\ op.prev = "live"
    /\ op.prev_expires > now + op.ttl
    /\ op.ttl > 0
    /\ cache[op.key].expires = now + op.ttl

\* ---------------------------------------------------------------------------
\* The concurrent cache specification: threads calling get and set on one
\* TimedCache.  The fields of an entry are written and read one at a time;
\* only the RwLock makes a call atomic.
\* ---------------------------------------------------------------------------

ConcKey == "k1"
\* the ttl each thread passes to set
ConcTtl == [t \in Threads |-> IF t = "t1" THEN 1 ELSE IF t = "t2" THEN 2 ELSE 3]
\* the expiry of an entry whose expires field is not written yet
Unwritten == 0 - 1

\* mutation: the write lock is granted while readers hold the lock
can_write_over_readers(l) == l.writer = NoThread

\* RwLock::write is granted
can_write(l) == l.writer = NoThread /\ l.readers = {}

\* RwLock::read is granted
can_read(l) == l.writer = NoThread

InitConc ==
    /\ now = 0
    /\ variant_cache = TimedCache_new
    /\ uuid_seed = 0
    /\ uuid_count = 0
    /\ reg_log = <<>>
    /\ op = [name |-> "init"]
    /\ result = None
    /\ fetched = <<>>
    /\ gen = GenIdle
    /\ CacheIdle

\* a thread calls get(key)
CallGet(t) ==
    /\ pc[t] = "idle"
    /\ pc' = [pc EXCEPT ![t] = "get_lock"]
    /\ tl' = [tl EXCEPT ![t].key = ConcKey]
    /\ UNCHANGED <<now, cache, cache_log, lock, worder, op, result, outsideCache>>

\* a thread calls set(key, value, ttl)
CallSet(t) ==
    /\ pc[t] = "idle"
    /\ pc' = [pc EXCEPT ![t] = "set_lock"]
    /\ tl' = [tl EXCEPT ![t].key = ConcKey, ![t].value = t, ![t].ttl = ConcTtl[t]]
    /\ UNCHANGED <<now, cache, cache_log, lock, worder, op, result, outsideCache>>

\* get: self.inner.read()
GetLock(t) ==
    /\ pc[t] = "get_lock"
    /\ can_read(lock)
    /\ lock' = [lock EXCEPT !.readers = @ \cup {t}]
    /\ pc' = [pc EXCEPT ![t] = "get_expires"]
    /\ UNCHANGED <<now, cache, cache_log, tl, worder, op, result, outsideCache>>

\* get: inner.get(key) and e.expires > Instant::now()
GetExpires(t) ==
    /\ pc[t] = "get_expires"
    /\ IF tl[t].key \in DOMAIN cache
       THEN /\ tl' = [tl EXCEPT ![t].seen_expires = cache[tl[t].key].expires]
            /\ pc' = [pc EXCEPT ![t] = IF cache[tl[t].key].expires > now
                                       THEN "get_value" ELSE "get_unlock"]
       ELSE /\ tl' = [tl EXCEPT ![t].seen_expires = Unwritten]
            /\ pc' = [pc EXCEPT ![t] = "get_unlock"]
    /\ UNCHANGED <<now, cache, cache_log, lock, worder, op, result, outsideCache>>

\* get: e.value.clone()
GetValue(t) ==
    /\ pc[t] = "get_value"
    /\ tl' = [tl EXCEPT ![t].ret = Some(cache[tl[t].key].value)]
    /\ pc' = [pc EXCEPT ![t] = "get_unlock"]
    /\ UNCHANGED <<now, cache, cache_log, lock, worder, op, result, outsideCache>>

\* get: the read guard is dropped on return
GetUnlock(t) ==
    /\ pc[t] = "get_unlock"
    /\ lock' = [lock EXCEPT !.readers = @ \ {t}]
    /\ pc' = [pc EXCEPT ![t] = "get_done"]
    /\ UNCHANGED <<now, cache, cache_log, tl, worder, op, result, outsideCache>>

\* set: self.inner.write()
SetLock(t) ==
    /\ pc[t] = "set_lock"
    /\ can_write(lock)
    /\ lock' = [lock EXCEPT !.writer = t]
    /\ worder' = Append(worder, t)
    /\ pc' = [pc EXCEPT ![t] = "set_value"]
    /\ UNCHANGED <<now, cache, cache_log, tl, op, result, outsideCache>>

\* set: the Entry is built (Instant::now() + ttl) and its value is stored
SetValue(t) ==
    /\ pc[t] = "set_value"
    /\ tl' = [tl EXCEPT ![t].expires = now + tl[t].ttl]
    /\ cache' = [k \in DOMAIN cache \cup {tl[t].key} |->
                    IF k = tl[t].key
                    THEN [value |-> tl[t].value,
                          expires |-> IF k \in DOMAIN cache THEN cache[k].expires
                                      ELSE Unwritten]
                    ELSE cache[k]]
    /\ pc' = [pc EXCEPT ![t] = "set_expires"]
    /\ UNCHANGED <<now, cache_log, lock, worder, op, result, outsideCache>>

\* set: the expiry of the Entry is stored
SetExpires(t) ==
    /\ pc[t] = "set_expires"
    /\ cache' = [cache EXCEPT ![tl[t].key].expires = tl[t].expires]
    /\ pc' = [pc EXCEPT ![t] = "set_unlock"]
    /\ UNCHANGED <<now, cache_log, lock, tl, worder, op, result, outsideCache>>

\* set: the write guard is dropped on return
SetUnlock(t) ==
    /\ pc[t] = "set_unlock"
    /\ lock' = [lock EXCEPT !.writer = NoThread]
    /\ pc' = [pc EXCEPT ![t] = "set_done"]
    /\ UNCHANGED <<now, cache, cache_log, tl, worder, op, result, outsideCache>>

ConcTick ==
    /\ now < MaxConcTicks
    /\ now' = now + 1
    /\ UNCHANGED <<cacheVars, concVars, op, result, outsideCache>>

NextConc ==
    \/ \E t \in Threads : CallGet(t)
    \/ \E t \in Threads : CallSet(t)
    \/ \E t \in Threads : GetLock(t)
    \/ \E t \in Threads : GetExpires(t)
    \/ \E t \in Threads : GetValue(t)
    \/ \E t \in Threads : GetUnlock(t)
    \/ \E t \in Threads : SetLock(t)
    \/ \E t \in Threads : SetValue(t)
    \/ \E t \in Threads : SetExpires(t)
    \/ \E t \in Threads : SetUnlock(t)
    \/ ConcTick

SpecConc == InitConc /\ [][NextConc]_vars

Reading(t) == pc[t] \in {"get_expires", "get_value", "get_unlock"}
Writing(t) == pc[t] \in {"set_value", "set_expires", "set_unlock"}

\* C9: a writer excludes every other writer and every reader; a get that
\* returns a value has seen the value and the expiry of one and the same set;
\* once every call has returned, the entry is the one of the last set that
\* took the write lock.
C9_ReadWriteLock ==
    /\ \A t, u \in Threads :
          (t # u /\ Writing(t)) => (~Writing(u) /\ ~Reading(u))
    /\ \A t \in Threads :
          (pc[t] = "get_done" /\ tl[t].ret.some) =>
             \E w \in Threads :
                /\ tl[t].ret.val = tl[w].value
                /\ tl[t].seen_expires = tl[w].expires
                /\ pc[w] \in {"set_unlock", "set_done"}
    /\ (\A t \in Threads : pc[t] \in {"get_done", "set_done"}) /\ worder # <<>> =>
          cache[ConcKey] = [value |-> tl[worder[Len(worder)]].value,
                            expires |-> tl[worder[Len(worder)]].expires]

\* two sets took the write lock one after the other, the first has returned,
\* and a get has returned the value of the second
C9_Witness ==
    /\ Len(worder) = 2
    /\ \E t \in Threads :
          /\ pc[t] = "get_done"
          /\ tl[t].ret.some
          /\ tl[t].ret.val = worder[2]
          /\ pc[worder[1]] = "set_done"

\* ---------------------------------------------------------------------------
\* The age of a video: chrono_days_since_str, parse_iso8601_to_epoch and
\* days_from_civil.  A point in time is [secs, cs]: whole seconds since the
\* epoch and hundredths of a second; an age (f64 days in the code) is a
\* number of hundredths of a second
\* ---------------------------------------------------------------------------

Min(a, b) == IF a <= b THEN a ELSE b
Max(a, b) == IF a >= b THEN a ELSE b

\* clamp
clamp(value, min, max) == Min(Max(value, min), max)

\* the cap of 60 days on an age
AGE_CAP_DAYS == 60

\* the value of a string of decimal digits
RECURSIVE DecValue(_)
DecValue(s) ==
    IF s = <<>> THEN 0
    ELSE 10 * DecValue(SubSeq(s, 1, Len(s) - 1))
         + ((CHOOSE i \in 1..10 : DecDigits[i] = s[Len(s)]) - 1)

\* str::parse::<u32>: an optional plus sign and decimal digits (up to nine
\* digits here, which no field of a timestamp exceeds)
parse_u32(s) ==
    LET digits == IF s # <<>> /\ s[1] = "+" THEN Tail(s) ELSE s
    IN  IF /\ digits # <<>>
           /\ Len(digits) <= 9
           /\ \A i \in 1..Len(digits) : digits[i] \in Digits
        THEN Some(DecValue(digits))
        ELSE None

\* split(..).filter_map(|p| p.parse().ok()).collect()
RECURSIVE filter_map_parse(_)
filter_map_parse(parts) ==
    IF parts = <<>> THEN <<>>
    ELSE (IF parse_u32(Head(parts)).some THEN <<parse_u32(Head(parts)).val>> ELSE <<>>)
         \o filter_map_parse(Tail(parts))

\* str::splitn(2, c)
splitn2(s, c) ==
    LET i == FindAnyFrom(s, {c}, 1)
    IN  IF i = 0 THEN <<s>> ELSE <<SubSeq(s, 1, i - 1), SubSeq(s, i + 1, Len(s))>>

\* mutation: the year is not moved back for January and February
days_from_civil_no_shift(y0, m, d) ==
    LET y == y0
        era == y \div 400
        yoe == y - era * 400
        doy == (153 * (IF m > 2 THEN m - 3 ELSE m + 9) + 2) \div 5 + d - 1
        doe == yoe * 365 + yoe \div 4 - yoe \div 100 + doy
    IN  era * 146097 + doe - 719468

\* days_from_civil (y0 is the parameter y, shadowed in the code)
days_from_civil(y0, m, d) ==
    LET y == IF m <= 2 THEN y0 - 1 ELSE y0
        era == y \div 400
        yoe == y - era * 400
        doy == (153 * (IF m > 2 THEN m - 3 ELSE m + 9) + 2) \div 5 + d - 1
        doe == yoe * 365 + yoe \div 4 - yoe \div 100 + doy
    IN  era * 146097 + doe - 719468

\* parse_iso8601_to_epoch from the date and time fields on
epoch_of_parts(date_parts, time_parts) ==
    IF Len(date_parts) # 3 \/ Len(time_parts) # 3 THEN Err(<<>>)
    ELSE Ok(days_from_civil(date_parts[1], date_parts[2], date_parts[3]) * DAY_SECS
            + time_parts[1] * 3600 + time_parts[2] * 60 + time_parts[3])

\* parse_iso8601_to_epoch: whole seconds since the epoch
parse_iso8601_to_epoch(s0) ==
    LET date_time == splitn2(trim_end_matches(s0, "Z"), "T")
    IN  IF Len(date_time) # 2 THEN Err(<<>>)
        ELSE epoch_of_parts(filter_map_parse(split(date_time[1], "-")),
                            filter_map_parse(split(Head(split(date_time[2], ".")), ":")))

\* (now_secs - ts).max(0.0) / 86400.0 clamped to 0..60 days; whole seconds
\* are compared first, which keeps the hundredths inside the integers
age_since(ts, now_secs) ==
    IF now_secs.secs - ts >= AGE_CAP_DAYS * DAY_SECS THEN AGE_CAP_DAYS * DAY
    ELSE IF now_secs.secs - ts < 0 THEN 0
    ELSE clamp((now_secs.secs - ts) * 100 + now_secs.cs, 0, AGE_CAP_DAYS * DAY)

\* SystemTime::now() when the monotonic clock shows t: 2024-01-10T00:00:00.25Z
\* at the start
VOD_EPOCH_DAYS == 19732
system_time(t) == [secs |-> VOD_EPOCH_DAYS * DAY_SECS + t, cs |-> 25]

\* chrono_days_since_str with SystemTime::now() = now_secs
chrono_days_since_str(date_str, now_secs) ==
    LET ts == parse_iso8601_to_epoch(date_str)
    IN  IF ts.ok THEN age_since(ts.val, now_secs) ELSE 0

\* ---------------------------------------------------------------------------
\* The VOD manifest specification: one generate_master_playlist request,
\* one step per awaited request
\* ---------------------------------------------------------------------------

\* generate_master_playlist from the parsed seekPreviewsURL to the loop
prologue_parsed(safe_vod_id, video, info, serving_id, now_secs) ==
    IF ~info.ok THEN info
    ELSE Ok([pc |-> "probe",
             safe_vod_id |-> safe_vod_id,
             domain |-> info.val.domain,
             vod_special_id |-> info.val.vod_special_id,
             channel_login |-> video.login.val,
             broadcast_type |-> to_lowercase(IF video.broadcastType.some
                                             THEN video.broadcastType.val ELSE ARCHIVE),
             created_at |-> IF video.createdAt.some THEN video.createdAt.val ELSE <<>>,
             days_diff |-> chrono_days_since_str(IF video.createdAt.some
                                                 THEN video.createdAt.val ELSE <<>>,
                                                 now_secs),
             i |-> 1,
             start_bandwidth |-> START_BANDWIDTH,
             playlist |-> playlist_header(serving_id),
             failed |-> 0])

\* generate_master_playlist up to the loop, on the answer gql of the video query
prologue(vod_id, gql, serving_id, now_secs) ==
    IF ~vod_id_re_is_match(trim(vod_id)) THEN Err(<<"Invalid VOD identifier">>)
    ELSE IF gql.kind = "error" THEN Err(<<"Twitch API error: ", "request failed">>)
    ELSE IF gql.kind = "null" THEN Err(<<"Video not found">>)
    ELSE IF ~gql.seekPreviewsURL.some THEN Err(<<"Missing seekPreviewsURL">>)
    ELSE IF ~gql.login.some THEN Err(<<"Missing owner.login">>)
    ELSE prologue_parsed(gql_escape(trim(vod_id)), gql,
                         parse_vod_url_info(gql.seekPreviewsURL.val), serving_id,
                         now_secs)

InitVod == Init

Started(vod_id, st) ==
    /\ gen.pc = "idle"
    /\ gen' = IF st.ok THEN st.val ELSE [pc |-> "done"]
    /\ uuid_count' = IF st.ok THEN uuid_count + 1 ELSE uuid_count
    /\ op' = [name |-> "generate", arg |-> vod_id]
    /\ result' = IF st.ok THEN Ok(<<>>) ELSE st
    /\ fetched' = <<>>
    /\ UNCHANGED <<now, variant_cache, uuid_seed, reg_log, outsideVod>>

\* the request up to the first probe
GenStart(vod_id, gql) ==
    Started(vod_id, prologue(vod_id, gql, create_serving_id(uuid_seed, uuid_count), system_time(now)))

\* the candidate URL of the resolution the loop is at
stream_url_of(g) ==
    build_stream_url(g.domain, g.vod_special_id, resolutions[g.i].res_key, g.safe_vod_id,
                     g.broadcast_type, g.days_diff, g.channel_login)

\* the registration of the loop body: made only when the probe found a codec
loop_register(vc, stream_url, codec, seed, n, t) ==
    IF codec.some THEN register_variant_proxy_target(vc, stream_url, seed, n, t)
    ELSE [res |-> Err(<<>>), cache |-> vc, drawn |-> 0]

\* history: failed counts the probes of the request that found no codec
probe_counted(g, codec) == [g EXCEPT !.failed = @ + (IF codec.some THEN 0 ELSE 1)]

Probed(stream_url, kind, codec, reg) ==
    /\ gen.pc = "probe"
    /\ gen.i <= Len(resolutions)
    /\ gen' = probe_counted(loop_body(gen, resolutions[gen.i], codec, reg), codec)
    /\ variant_cache' = reg.cache
    /\ uuid_count' = uuid_count + reg.drawn
    /\ reg_log' = IF reg.res.ok
                  THEN [k \in DOMAIN reg_log \cup {reg.res.val} |->
                           IF k = reg.res.val
                           THEN [url |-> stream_url, at |-> now,
                                 stored |-> reg.cache[VariantKey(k)].value]
                           ELSE reg_log[k]]
                  ELSE reg_log
    /\ op' = [name |-> "probe", arg |-> stream_url, kind |-> kind, found |-> codec.some]
    /\ result' = Ok(<<>>)
    /\ fetched' = stream_url
    /\ UNCHANGED <<now, uuid_seed, outsideVod>>

ProbedCodec(stream_url, kind, codec) ==
    Probed(stream_url, kind, codec,
           loop_register(variant_cache, stream_url, codec, uuid_seed, uuid_count, now))

\* one iteration of the loop: the probe of is_valid_quality answers resp
GenProbe(resp) ==
    /\ gen.pc = "probe"
    /\ gen.i <= Len(resolutions)
    /\ ProbedCodec(stream_url_of(gen), resp.kind, is_valid_quality(resp))

\* the loop is over: Ok(playlist)
GenFinish ==
    /\ gen.pc = "probe"
    /\ gen.i > Len(resolutions)
    /\ gen' = [gen EXCEPT !.pc = "done"]
    /\ op' = [name |-> "generated", arg |-> <<>>]
    /\ result' = Ok(gen.playlist)
    /\ fetched' = <<>>
    /\ UNCHANGED <<now, regVars, outsideVod>>

DoGenStart == \E vod_id \in VodIds, gql \in GqlResponses : GenStart(vod_id, gql)
DoGenProbe == \E resp \in ProbeResponses : GenProbe(resp)

NextVod ==
    \/ DoGenStart
    \/ DoGenProbe
    \/ GenFinish

SpecVod == InitVod /\ [][NextVod]_vars

\* the lines of a playlist that carry a BANDWIDTH attribute, in order
StreamInfLines(playlist) == SelectSeq(playlist, LAMBDA l : l.tag = "#EXT-X-STREAM-INF")

Attr(line, name) ==
    (CHOOSE a \in {line.attrs[i] : i \in 1..Len(line.attrs)} : a[1] = name)[2]

Bandwidths(playlist) ==
    [j \in 1..Len(StreamInfLines(playlist)) |-> Attr(StreamInfLines(playlist)[j], "BANDWIDTH")]

BandwidthLadder(b) ==
    /\ Len(b) > 0 => b[1] = 8534030
    /\ \A j \in 1..(Len(b) - 1) : b[j + 1] = b[j] - 100

\* C10: in the manifest under construction and in the manifest returned, the
\* first included variant has BANDWIDTH 8534030 and every further included
\* variant has a BANDWIDTH exactly 100 below the previous included one,
\* whatever resolutions were skipped before or between them; the bandwidth
\* the next included variant will take is 8534030 minus 100 per variant
\* included so far.
C10_BandwidthLadder ==
    /\ gen.pc \in {"probe", "done"} /\ "playlist" \in DOMAIN gen =>
          /\ BandwidthLadder(Bandwidths(gen.playlist))
          /\ gen.start_bandwidth = 8534030 - 100 * Len(Bandwidths(gen.playlist))
    /\ op.name = "generated" =>
          /\ result.ok
          /\ BandwidthLadder(Bandwidths(result.val))

\* a manifest was returned with exactly two variants, the first and the last
\* resolution, the four resolutions between them having been skipped
C10_Witness ==
    /\ op.name = "generated"
    /\ result.ok
    /\ Bandwidths(result.val) = <<8534030, 8533930>>
    /\ [j \in 1..2 |-> Attr(StreamInfLines(result.val)[j], "VIDEO")]
          = << <<"1","0","8","0","p">>, <<"1","6","0","p","3","0">> >>

\* the variants of a playlist: the VIDEO attribute of its stream lines, in order
Variants(playlist) ==
    [j \in 1..Len(StreamInfLines(playlist)) |-> Attr(StreamInfLines(playlist)[j], "VIDEO")]

IsHeader(playlist) ==
    /\ Len(playlist) >= 2
    /\ playlist[1].tag = "#EXTM3U"
    /\ playlist[2].tag = "#EXT-X-TWITCH-INFO"

\* C11: once the video query has succeeded and the special id is derived, no
\* step of the generation fails: a probe that finds no codec (non-2xx,
\* time-out, network error, unreadable or unrecognised body) leaves the
\* playlist as it is and moves to the next resolution, the request ends with
\* Ok(playlist), and when all six probes failed that playlist is exactly the
\* #EXTM3U line followed by the #EXT-X-TWITCH-INFO line.
C11_ProbeFailureOmits ==
    [][ /\ (op'.name = "probe" /\ ~op'.found) =>
              /\ gen'.playlist = gen.playlist
              /\ gen'.i = gen.i + 1
              /\ gen'.pc = "probe"
              /\ result'.ok
        /\ (op'.name = "probe" /\ op'.found) =>
              /\ SubSeq(gen'.playlist, 1, Len(gen.playlist)) = gen.playlist
              /\ Len(gen'.playlist) \in {Len(gen.playlist), Len(gen.playlist) + 3}
              /\ result'.ok
        /\ op'.name = "generated" =>
              /\ gen.pc = "probe"
              /\ result'.ok
              /\ result'.val = gen.playlist
              /\ IsHeader(result'.val)
              /\ Len(result'.val) = 2 + 3 * Len(Variants(result'.val))
              /\ Len(Variants(result'.val)) <= Len(resolutions) - gen.failed
              /\ gen.failed = Len(resolutions) => Len(result'.val) = 2 ]_vars

\* a request whose six probes all failed has returned the two header lines
C11_Witness ==
    /\ op.name = "generated"
    /\ gen.failed = 6
    /\ result.ok
    /\ Len(result.val) = 2
    /\ IsHeader(result.val)

\* ---------------------------------------------------------------------------
\* The live manifest specification: one generate_live_master_playlist
\* request, one step per awaited request, then resolutions and the clock
\* ---------------------------------------------------------------------------

\* the answers to the playback grant query and to the GET of the manifest
GrantResponses ==
    { [kind |-> "error"], [kind |-> "status"], [kind |-> "no_value"],
      [kind |-> "no_signature"], [kind |-> "ok", token |-> LiveToken] }

MasterResponses ==
    { [kind |-> "error", body |-> <<>>], [kind |-> "status", body |-> <<>>] }
    \cup { [kind |-> "ok", body |-> m] : m \in LiveMasters }

\* fetch_live_playback_token on the answer resp
fetch_live_playback_token(resp) ==
    IF resp.kind = "error" THEN Err(<<"error sending request">>)
    ELSE IF resp.kind = "status"
    THEN Err(<<"Failed to fetch live playback token (", "500", ")">>)
    ELSE IF resp.kind = "no_value" THEN Err(<<"Missing token value">>)
    ELSE IF resp.kind = "no_signature" THEN Err(<<"Missing token signature">>)
    ELSE Ok(resp.token)

LiveGranted(channel_login, token, random_p) ==
    /\ gen.pc = "idle"
    /\ gen' = IF token.ok
              THEN [pc |-> "live_fetch",
                    source_url |-> live_source_url(channel_login, random_p, token.val)]
              ELSE [pc |-> "done"]
    /\ uuid_count' = IF token.ok THEN uuid_count + 1 ELSE uuid_count
    /\ op' = [name |-> "live", arg |-> channel_login]
    /\ result' = IF token.ok THEN Ok(<<>>) ELSE token
    /\ fetched' = <<>>
    /\ UNCHANGED <<now, variant_cache, uuid_seed, reg_log, outsideVod>>

\* generate_live_master_playlist up to the GET of the manifest
LiveStart(resp) ==
    LiveGranted(LiveChannel, fetch_live_playback_token(resp),
                u32_rem(rand_u32(uuid_seed, uuid_count), 1000000))

\* the registry history after the registrations refs
logged(log, refs, vc, t) ==
    [k \in DOMAIN log \cup {refs[j].id : j \in {j \in 1..Len(refs) : refs[j].ok}} |->
        IF \E j \in 1..Len(refs) : refs[j].ok /\ refs[j].id = k
        THEN [url |-> (CHOOSE r \in {refs[j] : j \in 1..Len(refs)} : r.ok /\ r.id = k).abs,
              at |-> t, stored |-> vc[VariantKey(k)].value]
        ELSE log[k]]

LiveRewritten(resp, rw) ==
    /\ gen.pc = "live_fetch"
    /\ resp.kind = "ok"
    /\ gen' = [pc |-> "done"]
    /\ variant_cache' = rw.cache
    /\ uuid_count' = rw.n
    /\ reg_log' = logged(reg_log, rw.refs, rw.cache, now)
    /\ op' = [name |-> "live_master", arg |-> resp.body, base |-> gen.source_url,
              refs |-> rw.refs]
    /\ result' = Ok(rw.text)
    /\ fetched' = gen.source_url
    /\ UNCHANGED <<now, uuid_seed, outsideVod>>

\* the GET of the manifest fails
LiveFailed(resp) ==
    /\ gen.pc = "live_fetch"
    /\ resp.kind # "ok"
    /\ gen' = [pc |-> "done"]
    /\ op' = [name |-> "live_failed", arg |-> <<>>]
    /\ result' = IF resp.kind = "error" THEN Err(<<"error sending request">>)
                 ELSE Err(<<"Twitch returned HTTP ", "500">>)
    /\ fetched' = gen.source_url
    /\ UNCHANGED <<now, regVars, outsideVod>>

\* the manifest arrives and is rewritten
LiveFetch(resp) ==
    /\ gen.pc = "live_fetch"
    /\ resp.kind = "ok"
    /\ LiveRewritten(resp, rewrite_master_with_proxy(resp.body, gen.source_url, variant_cache,
                                                     uuid_seed, uuid_count, now))

DoLiveStart == \E resp \in GrantResponses : LiveStart(resp)
DoLiveFetch == \E resp \in MasterResponses : LiveFetch(resp)
DoLiveFailed == \E resp \in MasterResponses : LiveFailed(resp)

NextLive ==
    \/ DoLiveStart
    \/ DoLiveFetch
    \/ DoLiveFailed
    \/ DoResolve
    \/ Tick

SpecLive == Init /\ [][NextLive]_vars

\* the lines of a text
LinesOf(text) == split(text, "\n")

\* C12: in the rewritten live manifest every reference whose registration was
\* rejected stands as its absolute URL (resolved against the manifest's URL),
\* in a URI="..." attribute of a tag line as well as on a bare line, and the
\* output has as many lines as the input.
C12_RejectedLeftAbsolute ==
    op.name = "live_master" =>
        /\ Len(LinesOf(result.val)) = Len(LinesOf(op.arg))
        /\ \A k \in 1..Len(op.refs) :
              ~op.refs[k].ok =>
                 IF op.refs[k].kind = "attr"
                 THEN contains(LinesOf(result.val)[op.refs[k].line],
                               URI_ATTR \o op.refs[k].abs \o <<"\"">>)
                 ELSE LinesOf(result.val)[op.refs[k].line] = op.refs[k].abs

\* ---------------------------------------------------------------------------
\* Recommendation feed: scoring
\*
\* An f64 is modelled in fixed point: factors, affinities and profile scores
\* in thousandths, the score of a candidate in millionths; a division
\* truncates.  A video carries age_days, the value chrono_days_since_str
\* gives for its createdAt, in thousandths of a day.
\* ---------------------------------------------------------------------------

\* normalize_language on an Option<&str>
normalize_language(language) ==
    to_lowercase(trim(IF language.some THEN language.val ELSE <<>>))

FR == <<"f", "r">>

\* HashMap::get(..).copied().unwrap_or(0.0)
GetOr0(map, k) == IF k \in DOMAIN map THEN map[k] ELSE 0

\* the length factor of score_candidate_vod, in thousandths
length_factor(length_secs) ==
    IF length_secs < 60 THEN 10
    ELSE IF length_secs < 600
    THEN 10 + (170 * (length_secs - 60) * (length_secs - 60)) \div (540 * 540)
    ELSE IF length_secs < 1800 THEN 180 + (820 * (length_secs - 600)) \div 1200
    ELSE 1000

\* mutation: the second segment starts at 0.5 for 5 views
view_factor_from_half(view_count) ==
    IF view_count = 0 THEN 40
    ELSE IF view_count < 5 THEN 40 + (460 * view_count) \div 5
    ELSE IF view_count < 50 THEN 500 + (500 * (view_count - 5)) \div 45
    ELSE 1000

\* the view factor of score_candidate_vod, in thousandths
view_factor(view_count) ==
    IF view_count = 0 THEN 40
    ELSE IF view_count < 5 THEN 40 + (460 * view_count) \div 5
    ELSE IF view_count < 50 THEN 500 + (500 * view_count) \div 50
    ELSE 1000

\* length_factor * view_factor, in millionths
quality_of_vod(vod) == length_factor(vod.length_seconds) * view_factor(vod.view_count)

QUALITY_GATE == 50000

\* f64::log10 of view_count + 10 for the view counts of the model, in thousandths
Log10Table == [x \in {10, 13, 15, 60, 100, 1000} |->
                 CASE x = 10 -> 1000 [] x = 13 -> 1113 [] x = 15 -> 1176
                   [] x = 60 -> 1778 [] x = 100 -> 2000 [] x = 1000 -> 3000]

log10(x) == Log10Table[x]

\* the lower-cased login of the owner, "" without owner
channel_login_of(vod) == IF vod.owner.some THEN to_lowercase(vod.owner.val) ELSE <<>>

\* the sum of the signals of score_candidate_vod, in thousandths
base_score(vod, profile, subs_set, channel_login, language) ==
    (log10(vod.view_count + 10) * 1150) \div 1000
    + (GetOr0(profile.game_scores, IF vod.game.some THEN vod.game.val ELSE "") * 2100) \div 1000
    + (GetOr0(profile.channel_scores, channel_login) * 2400) \div 1000
    + (GetOr0(profile.language_scores, language) * 1150) \div 1000
    + (IF language = FR THEN 2300 ELSE 0)
    + (IF channel_login \in subs_set THEN 3200 ELSE 0)
    + clamp(2100 - vod.age_days \div 9, 0, 2100)

\* mutation: the affinities are added to the quality of a gated video
score_candidate_vod_no_gate(vod, profile, subs_set) ==
    (base_score(vod, profile, subs_set, channel_login_of(vod), normalize_language(vod.language))
     * (quality_of_vod(vod) \div 1000))

\* score_candidate_vod, in millionths
score_candidate_vod(vod, profile, subs_set) ==
    IF quality_of_vod(vod) < QUALITY_GATE THEN quality_of_vod(vod)
    ELSE base_score(vod, profile, subs_set, channel_login_of(vod),
                    normalize_language(vod.language))
         * (quality_of_vod(vod) \div 1000)

\* get_watch_weight, in thousandths (timecode and duration in seconds)
get_watch_weight(entry) ==
    IF entry.duration <= 0 THEN clamp((entry.timecode * 1000) \div 1800, 50, 1000)
    ELSE clamp((entry.timecode * 1000) \div entry.duration, 50, 1000)

\* a map with weight added to the score of key (entry(key).or_insert(0.0) += weight)
AddScore(map, key, weight) ==
    [k \in DOMAIN map \cup {key} |-> IF k = key THEN GetOr0(map, key) + weight ELSE map[k]]

\* the body of the loop of build_preference_profile over the watched videos:
\* weighted is the weight of the history entry of vod
profile_watched(p, vod, weighted) ==
    [game_scores |-> IF vod.game.some /\ vod.game.val # ""
                     THEN AddScore(p.game_scores, vod.game.val, weighted)
                     ELSE p.game_scores,
     channel_scores |-> IF vod.owner.some /\ vod.owner.val # <<>>
                        THEN AddScore(p.channel_scores, to_lowercase(vod.owner.val), weighted)
                        ELSE p.channel_scores,
     language_scores |-> IF normalize_language(vod.language) # <<>>
                         THEN AddScore(p.language_scores, normalize_language(vod.language),
                                       weighted)
                         ELSE p.language_scores]

\* the weight of a history entry: watch weight times recency penalty
\* (now_s and updated_at in seconds; 45 days are 3888000 seconds, a thousandth
\* of them 3888)
entry_weight(entry, now_s) ==
    (get_watch_weight(entry)
     * clamp(1000 - (now_s - entry.updated_at) \div 3888, 350, 1000)) \div 1000

RECURSIVE profile_of_watched(_, _, _, _)
profile_of_watched(p, history, watched_vods, now_s) ==
    IF watched_vods = <<>> THEN p
    ELSE profile_of_watched(
             IF Head(watched_vods).id \in DOMAIN history
             THEN profile_watched(p, Head(watched_vods),
                                  entry_weight(history[Head(watched_vods).id], now_s))
             ELSE p,
             history, Tail(watched_vods), now_s)

RECURSIVE profile_of_subs(_, _)
profile_of_subs(p, subs) ==
    IF subs = <<>> THEN p
    ELSE profile_of_subs(
             [p EXCEPT !.channel_scores = AddScore(@, to_lowercase(Head(subs)), 1750)],
             Tail(subs))

\* mutation: the French score is raised to 1.2 and no further
profile_fr_floor(p) ==
    IF GetOr0(p.language_scores, FR) < 1200
    THEN [p EXCEPT !.language_scores =
             [k \in DOMAIN p.language_scores \cup {FR} |->
                 IF k = FR THEN 1200 ELSE p.language_scores[k]]]
    ELSE p

\* the French baseline of build_preference_profile
profile_fr_baseline(p) ==
    IF GetOr0(p.language_scores, FR) < 1200
    THEN [p EXCEPT !.language_scores =
             [k \in DOMAIN p.language_scores \cup {FR} |->
                 IF k = FR THEN GetOr0(p.language_scores, FR) + 1200
                 ELSE p.language_scores[k]]]
    ELSE p

EmptyProfile == [game_scores |-> <<>>, channel_scores |-> <<>>, language_scores |-> <<>>]

\* build_preference_profile (history: video id -> entry; subs: the logins)
build_preference_profile(history, watched_vods, subs, now_s) ==
    profile_fr_baseline(
        profile_of_subs(profile_of_watched(EmptyProfile, history, watched_vods, now_s), subs))

\* ---------------------------------------------------------------------------
\* Recommendation feed: ranking, diversity pass and interleaving
\* ---------------------------------------------------------------------------

\* the first n elements (Vec::truncate, Iterator::take)
Take(seq, n) == SubSeq(seq, 1, Min(n, Len(seq)))

\* the elements of seq that satisfy Test, in order
Filter(seq, Test(_)) == SelectSeq(seq, Test)

\* all_candidates deduplicated by id, first occurrence kept, in insertion order
RECURSIVE deduped(_, _)
deduped(all_candidates, ids) ==
    IF all_candidates = <<>> THEN <<>>
    ELSE IF Head(all_candidates).id # <<>> /\ Head(all_candidates).id \notin ids
    THEN <<Head(all_candidates)>>
         \o deduped(Tail(all_candidates), ids \cup {Head(all_candidates).id})
    ELSE deduped(Tail(all_candidates), ids)

\* the iteration orders of a HashMap the model samples
MapOrders == {"insertion", "reverse"}

\* HashMap::into_values: the values in the iteration order of the map
into_values(seq, order) ==
    IF order = "insertion" THEN seq
    ELSE [i \in 1..Len(seq) |-> seq[Len(seq) + 1 - i]]

\* x placed behind every element of sorted that does not score less
RECURSIVE insert_by_score(_, _)
insert_by_score(sorted, x) ==
    IF sorted = <<>> THEN <<x>>
    ELSE IF Head(sorted).score >= x.score
    THEN <<Head(sorted)>> \o insert_by_score(Tail(sorted), x)
    ELSE <<x>> \o sorted

\* sort_by(|a, b| b.score.partial_cmp(&a.score)): stable, highest score first
RECURSIVE sort_by_score(_, _)
sort_by_score(seq, sorted) ==
    IF seq = <<>> THEN sorted
    ELSE sort_by_score(Tail(seq), insert_by_score(sorted, Head(seq)))

\* the scored candidates of fetch_trending_vods before the sort
scored_of(vods, profile, subs_set) ==
    [i \in 1..Len(vods) |->
        [vod |-> vods[i], score |-> score_candidate_vod(vods[i], profile, subs_set)]]

TRENDING_TRUNCATE == 120

\* mutation: every channel gets the three slots
max_slots_three(sv, profile, subs_set) == 3

\* max_slots of the diversity pass
max_slots(sv, profile, subs_set) ==
    IF \/ channel_login_of(sv.vod) \in subs_set
       \/ sv.vod.owner.some /\ to_lowercase(sv.vod.owner.val) \in DOMAIN profile.channel_scores
    THEN 3 ELSE 2

\* the diversity pass: scored.retain(..) with its channel_count
RECURSIVE diversity_retain(_, _, _, _)
diversity_retain(scored, channel_count, profile, subs_set) ==
    IF scored = <<>> THEN <<>>
    ELSE IF GetOr0(channel_count, channel_login_of(Head(scored).vod))
            < max_slots(Head(scored), profile, subs_set)
    THEN <<Head(scored)>>
         \o diversity_retain(Tail(scored),
                             AddScore(channel_count, channel_login_of(Head(scored).vod), 1),
                             profile, subs_set)
    ELSE diversity_retain(Tail(scored),
                          AddScore(channel_count, channel_login_of(Head(scored).vod), 0),
                          profile, subs_set)

\* the sum of the values of a map
RECURSIVE SumOver(_, _)
SumOver(map, keys) ==
    IF keys = {} THEN 0
    ELSE LET k == CHOOSE x \in keys : TRUE IN map[k] + SumOver(map, keys \ {k})

\* foreign_ratio of fetch_trending_vods, in thousandths
foreign_ratio_of(language_scores) ==
    IF SumOver(language_scores, DOMAIN language_scores) > 0
    THEN clamp(160 + (((SumOver(language_scores, DOMAIN language_scores \ {FR}) * 1000)
                       \div SumOver(language_scores, DOMAIN language_scores)) * 350) \div 1000,
               160, 400)
    ELSE 160

\* normalize_language(v.vod.language) == "fr"
is_fr(sv) == normalize_language(sv.vod.language) = FR
is_foreign(sv) == ~is_fr(sv)

\* feed.iter().rev().take(4) as French flags
last_four(fed) ==
    [i \in 1..Min(4, Len(fed)) |-> is_fr(fed[Len(fed) + 1 - i])]

french_streak(fed) ==
    Len(last_four(fed)) = 4 /\ \A i \in 1..4 : last_four(fed)[i]

foreign_streak(fed) ==
    last_four(fed) # <<>> /\ \A i \in 1..Len(last_four(fed)) : ~last_four(fed)[i]

\* mutation: the target is taken for the current length of the feed
target_foreign_of_len(fed, ratio) == (Len(fed) * ratio) \div 1000

\* floor((feed.len() + 1) * foreign_ratio), the ratio in thousandths
target_foreign(fed, ratio) == ((Len(fed) + 1) * ratio) \div 1000

\* mutation: a run of four French items does not call for a foreign one
should_pick_foreign_no_streak(s) ==
    /\ ~foreign_streak(s.feed)
    /\ s.foi < Len(s.foreign)
    /\ \/ s.foreign_added < target_foreign(s.feed, s.ratio)
       \/ s.fi >= Len(s.french)

should_pick_foreign(s) ==
    /\ ~foreign_streak(s.feed)
    /\ s.foi < Len(s.foreign)
    /\ \/ s.foreign_added < target_foreign(s.feed, s.ratio)
       \/ s.fi >= Len(s.french)
       \/ french_streak(s.feed)

\* the locals of interleave_localized_feed before its loop
interleave_entry(candidates, ratio, max_items) ==
    [french |-> sort_by_score(Filter(candidates, is_fr), <<>>),
     foreign |-> sort_by_score(Filter(candidates, is_foreign), <<>>),
     fi |-> 0, foi |-> 0, foreign_added |-> 0, feed |-> <<>>,
     ratio |-> ratio, max_items |-> max_items]

\* mutation: the loop runs until both pools are empty
interleave_continues_uncapped(s) ==
    s.fi < Len(s.french) \/ s.foi < Len(s.foreign)

\* the condition of the while loop
interleave_continues(s) ==
    Len(s.feed) < s.max_items /\ (s.fi < Len(s.french) \/ s.foi < Len(s.foreign))

push_foreign(s) ==
    [s EXCEPT !.feed = Append(@, s.foreign[s.foi + 1]), !.foi = @ + 1,
              !.foreign_added = @ + 1]

push_french(s) == [s EXCEPT !.feed = Append(@, s.french[s.fi + 1]), !.fi = @ + 1]

\* one iteration of the while loop
interleave_body(s) ==
    IF should_pick_foreign(s) THEN push_foreign(s)
    ELSE IF s.fi < Len(s.french) THEN push_french(s)
    ELSE IF s.foi < Len(s.foreign) THEN push_foreign(s)
    ELSE s

RECURSIVE interleave_loop(_)
interleave_loop(s) ==
    IF interleave_continues(s) THEN interleave_loop(interleave_body(s)) ELSE s

\* feed.into_iter().map(|sv| sv.vod).collect()
vods_of(scored) == [i \in 1..Len(scored) |-> scored[i].vod]

interleave_localized_feed(candidates, ratio, max_items) ==
    vods_of(interleave_loop(interleave_entry(candidates, ratio, max_items)).feed)

TRENDING_MAX_ITEMS == 40

\* scored after the sort and the truncation of fetch_trending_vods
ranked(all_candidates, order, profile, subs_set) ==
    Take(sort_by_score(scored_of(into_values(deduped(all_candidates, {}), order),
                                 profile, subs_set), <<>>),
         TRENDING_TRUNCATE)

\* ---------------------------------------------------------------------------
\* Recommendation feed: the fingerprint of the viewing state
\* ---------------------------------------------------------------------------

\* the printable ASCII characters, from ' ' (32) to '~' (126); the grave accent
\* (96), which no text of the model holds, is spelled out
Ascii == <<" ", "!", "\"", "#", "$", "%", "&", "'", "(", ")", "*", "+",
          ",", "-", ".", "/", "0", "1", "2", "3", "4", "5", "6", "7",
          "8", "9", ":", ";", "<", "=", ">", "?", "@", "A", "B", "C",
          "D", "E", "F", "G", "H", "I", "J", "K", "L", "M", "N", "O",
          "P", "Q", "R", "S", "T", "U", "V", "W", "X", "Y", "Z", "[",
          "\\", "]", "^", "_", "grave", "a", "b", "c", "d", "e", "f", "g",
          "h", "i", "j", "k", "l", "m", "n", "o", "p", "q", "r", "s",
          "t", "u", "v", "w", "x", "y", "z", "{", "|", "}", "~">>

\* ch as i32
CharCode(c) == 31 + (CHOOSE i \in 1..Len(Ascii) : Ascii[i] = c)

\* an i32 is kept as its two 16-bit halves
Half == 65536

\* hash.wrapping_shl(5).wrapping_sub(hash).wrapping_add(ch as i32)
hash_step(h, c) ==
    [hi |-> (h.hi * 31 + (h.lo * 31 + CharCode(c)) \div Half) % Half,
     lo |-> (h.lo * 31 + CharCode(c)) % Half]

\* the loop over value.chars(); each round works on the values of the round
\* before it
RECURSIVE hash_fold(_, _)
hash_fold(h, value) ==
    IF value = <<>> THEN h
    ELSE CHOOSE r \in {hash_fold(x, rest) : x \in {hash_step(h, Head(value))},
                                           rest \in {Tail(value)}} : TRUE

\* i32::unsigned_abs on the halves: a negative value is negated modulo 2^32
unsigned_abs(h) ==
    IF h.hi < 32768 THEN h
    ELSE IF h.lo = 0 THEN [hi |-> (Half - h.hi) % Half, lo |-> 0]
    ELSE [hi |-> Half - 1 - h.hi, lo |-> Half - h.lo]

\* u32::to_string on the halves, by long division
RECURSIVE halves_to_string(_)
halves_to_string(h) ==
    IF h.hi = 0 /\ h.lo < 10 THEN <<DecDigits[h.lo + 1]>>
    ELSE CHOOSE r \in {halves_to_string(q) \o <<DecDigits[(((h.hi % 10) * Half + h.lo) % 10) + 1]>> :
                       q \in {[hi |-> h.hi \div 10,
                                lo |-> ((h.hi % 10) * Half + h.lo) \div 10]}} : TRUE

\* create_simple_hash (the values of the model are shorter than 10000 characters)
create_simple_hash(value) ==
    halves_to_string(unsigned_abs(hash_fold([hi |-> 0, lo |-> 0], value)))

\* x placed behind every entry of sorted that is not older
RECURSIVE insert_by_time(_, _)
insert_by_time(sorted, x) ==
    IF sorted = <<>> THEN <<x>>
    ELSE IF Head(sorted).updated_at >= x.updated_at
    THEN <<Head(sorted)>> \o insert_by_time(Tail(sorted), x)
    ELSE <<x>> \o sorted

RECURSIVE sort_by_time(_, _)
sort_by_time(seq, sorted) ==
    IF seq = <<>> THEN sorted
    ELSE sort_by_time(Tail(seq), insert_by_time(sorted, Head(seq)))

\* x placed in front of the first login of sorted that is greater
RECURSIVE insert_login(_, _)
insert_login(sorted, x) ==
    IF sorted = <<>> THEN <<x>>
    ELSE IF \E k \in 1..Len(x) + 1 :
               /\ SubSeq(x, 1, k - 1) = SubSeq(Head(sorted), 1, Min(k - 1, Len(Head(sorted))))
               /\ Len(Head(sorted)) >= k
               /\ (k > Len(x) \/ CharCode(x[k]) < CharCode(Head(sorted)[k]))
    THEN <<x>> \o sorted
    ELSE <<Head(sorted)>> \o insert_login(Tail(sorted), x)

\* the lower-cased logins of subs, sorted
RECURSIVE sorted_logins(_, _)
sorted_logins(subs, sorted) ==
    IF subs = <<>> THEN sorted
    ELSE sorted_logins(Tail(subs), insert_login(sorted, to_lowercase(Head(subs).login)))

HISTORY_TRUNCATE == 35

\* history.values() sorted by updated_at, newest first, truncated to 35
history_by_time(history_values) == Take(sort_by_time(history_values, <<>>), HISTORY_TRUNCATE)

\* "{},{},{},{}" of an entry: updated_at is held in seconds, ten minutes are 600
entry_text(e) ==
    e.vod_id \o <<",">> \o ToDecimal(e.timecode) \o <<",">> \o ToDecimal(e.duration)
    \o <<",">> \o ToDecimal(e.updated_at \div 600)

\* the text the fingerprint is taken of
fingerprint_text(by_time, subs) ==
    join([i \in 1..Len(by_time) |-> entry_text(by_time[i])], <<";">>)
    \o <<"|">> \o join(sorted_logins(subs, <<>>), <<",">>)

TRENDING_PREFIX == <<"t", "r", "e", "n", "d", "i", "n", "g", "_", "v", "o", "d", "s", "_">>

\* cache_key of fetch_trending_vods
trending_cache_key(by_time, subs) ==
    TRENDING_PREFIX \o create_simple_hash(fingerprint_text(by_time, subs))

\* ---------------------------------------------------------------------------
\* Recommendation feed: the trending operation
\*
\* A request is modelled in two steps: FeedStart looks the cache up and, on a
\* miss, leaves the request waiting for the upstream; FeedFinish takes the
\* answers of the upstream, ranks them, stores the feed and returns it.
\* ---------------------------------------------------------------------------

MkVod(id, len, views, age, lang, game, owner) ==
    [id |-> id, length_seconds |-> len, view_count |-> views, age_days |-> age,
     language |-> lang, game |-> game, owner |-> owner]

JUST_CHATTING == "Just Chatting"

\* the wall clock, in seconds, when the monotonic clock of the model shows 0
WALL_EPOCH == 4000000

wall(t) == WALL_EPOCH + t

ChannelLogins == << <<"a", "l">>, <<"b", "o">>, <<"c", "y">>, <<"d", "i">>, <<"e", "v">> >>

\* a watched channel, a subscribed channel, a foreign-language viewer
ViewNone == [history |-> <<>>, subs |-> <<>>]
ViewFan ==
    [history |-> << [vod_id |-> <<"7", "1">>, timecode |-> 900, duration |-> 1800,
                     updated_at |-> WALL_EPOCH - 86400] >>,
     subs |-> << [login |-> <<"a", "l">>] >>]
ViewAbroad ==
    [history |-> << [vod_id |-> <<"7", "2">>, timecode |-> 3600, duration |-> 0,
                     updated_at |-> WALL_EPOCH - 600],
                    [vod_id |-> <<"7", "1">>, timecode |-> 1800, duration |-> 1800,
                     updated_at |-> WALL_EPOCH - 4000000] >>,
     subs |-> << [login |-> <<"C", "y">>], [login |-> <<"b", "o">>] >>]

Views == {ViewNone, ViewFan, ViewAbroad}

\* the answers of the upstream to the request for the watched videos
WatchedFr == MkVod(<<"7", "1">>, 3600, 990, 30000, Some(<<"F", "R", " ">>), Some("Chess"), Some(<<"B", "o">>))
WatchedEn == MkVod(<<"7", "2">>, 3600, 990, 1000, Some(<<"e", "n">>), Some(JUST_CHATTING), Some(<<"d", "i">>))
WatchedAnswers == {<<>>, <<WatchedEn, WatchedFr>>}

\* a video the quality gate stops: 30 seconds, no view
LowFr == MkVod(<<"1", "0">>, 30, 0, 0, Some(FR), Some("Chess"), Some(<<"a", "l">>))
\* a short video with few views: 0.18 * 0.316 is above the gate
ShortEn == MkVod(<<"1", "1">>, 600, 3, 2000, Some(<<"e", "n">>), None, Some(<<"A", "L">>))
GoodFr == MkVod(<<"1", "2">>, 3600, 990, 1000, Some(FR), Some("Chess"), Some(<<"b", "o">>))
GoodEn == MkVod(<<"1", "3">>, 1200, 50, 9000, Some(<<"e", "n">>), Some(JUST_CHATTING), Some(<<"b", "o">>))
NoOwner == MkVod(<<"1", "4">>, 3600, 90, 0, None, None, None)
NoId == MkVod(<<>>, 3600, 990, 0, Some(FR), None, Some(<<"c", "y">>))

\* eight videos each of five channels, every second one French, all past the gate
PoolChannels ==
    [i \in 1..40 |->
        MkVod(<<"2", DecDigits[((i - 1) % 5) + 1], DecDigits[((i - 1) \div 5) + 1]>>,
              3600, 50, 1000 * ((i - 1) \div 5) + 90 * ((i - 1) % 5),
              IF i % 2 = 0 THEN Some(FR) ELSE Some(<<"e", "n">>),
              Some(JUST_CHATTING), Some(ChannelLogins[((i - 1) % 5) + 1]))]

PoolMixed == <<LowFr, GoodEn, ShortEn, NoId, GoodFr, NoOwner, GoodEn, LowFr>>

\* the answers of the upstream to the game and channel requests, chained
CandidateLists == {<<>>, <<LowFr>>, PoolMixed, PoolChannels}

\* history as the HashMap of the store: video id -> entry
history_map(entries) ==
    [id \in {entries[i].vod_id : i \in 1..Len(entries)} |->
        entries[CHOOSE i \in 1..Len(entries) : entries[i].vod_id = id]]

\* subs.iter().map(|s| s.login.to_lowercase()).collect::<HashSet>()
subs_set_of(subs) == {to_lowercase(subs[i].login) : i \in 1..Len(subs)}

\* the games of a profile, highest score first
RECURSIVE games_by_score(_, _)
games_by_score(game_scores, games) ==
    IF games = {} THEN <<>>
    ELSE <<CHOOSE g \in games : \A h \in games : game_scores[g] >= game_scores[h]>>
         \o games_by_score(game_scores, games \
               {CHOOSE g \in games : \A h \in games : game_scores[g] >= game_scores[h]})

\* top_games of fetch_trending_vods
top_games(game_scores) ==
    Take(IF \E i \in 1..Min(3, Cardinality(DOMAIN game_scores)) :
              games_by_score(game_scores, DOMAIN game_scores)[i] = JUST_CHATTING
         THEN Take(games_by_score(game_scores, DOMAIN game_scores), 3)
         ELSE Append(Take(games_by_score(game_scores, DOMAIN game_scores), 3), JUST_CHATTING),
         4)

\* the ids fetch_watched_vod_metadata asks the upstream for
safe_ids(vod_ids) ==
    Take(SelectSeq([i \in 1..Len(vod_ids) |-> trim(vod_ids[i])],
                   LAMBDA id : id # <<>> /\ \A k \in 1..Len(id) : id[k] \in Digits), 30)

\* the number of queries a computation of the feed sends to the upstream
upstream_calls(by_time, subs, profile) ==
    (IF safe_ids([i \in 1..Len(by_time) |-> by_time[i].vod_id]) = <<>> THEN 0 ELSE 1)
    + 2 * Len(top_games(profile.game_scores))
    + Min(10, Len(subs))

TRENDING_TTL == 900

\* the seconds one step of the clock of the feed takes, and the steps it takes
FeedTickSecs == TRENDING_TTL \div 3
MaxFeedTicks == 3

\* the requests one behaviour serves
MaxFeedRequests == 2

FeedIdle(n) == [pc |-> "idle", n |-> n]

InitFeed ==
    /\ now = 0
    /\ variant_cache = TimedCache_new
    /\ uuid_seed = 0
    /\ uuid_count = 0
    /\ reg_log = <<>>
    /\ op = NoOp
    /\ result = Ok(<<>>)
    /\ fetched = <<>>
    /\ gen = GenIdle
    /\ cache = TimedCache_new
    /\ cache_log = <<>>
    /\ lock = [writer |-> NoThread, readers |-> {}]
    /\ pc = [t \in Threads |-> "idle"]
    /\ tl = [t \in Threads |-> [key |-> "", value |-> "", ttl |-> 0, expires |-> 0,
                                 seen_expires |-> 0, ret |-> None]]
    /\ worder = <<>>
    /\ feed = FeedIdle(0)
    /\ hist = [pc |-> "idle"]

outsideFeed == <<regVars, fetched, concVars, gen, hist>>

\* the cache answered: the stored feed is returned
FeedHit(key, view, cached) ==
    /\ feed' = FeedIdle(feed.n + 1)
    /\ op' = [name |-> "trending", hit |-> TRUE, key |-> key, view |-> view, calls |-> 0]
    /\ result' = Ok(cached)
    /\ UNCHANGED <<now, cacheVars, outsideFeed>>

\* the cache did not answer: the request goes to the upstream
FeedMiss(key, view, by_time) ==
    /\ feed' = [pc |-> "fetching", n |-> feed.n + 1, key |-> key, view |-> view,
                by_time |-> by_time]
    /\ op' = [name |-> "trending_miss", key |-> key, view |-> view]
    /\ result' = Ok(<<>>)
    /\ UNCHANGED <<now, cacheVars, outsideFeed>>

\* fetch_trending_vods up to the lookup of the cache
FeedStart(view) ==
    /\ feed.pc = "idle"
    /\ feed.n < MaxFeedRequests
    /\ \E by_time \in {history_by_time(view.history)} :
       \E key \in {trending_cache_key(by_time, view.subs)} :
       \E cached \in {TimedCache_get(cache, key, now)} :
          IF cached.some THEN FeedHit(key, view, cached.val) ELSE FeedMiss(key, view, by_time)

\* the feed is stored for 900 seconds and returned
FeedStored(profile, subs_set, scored, retained, out, calls) ==
    /\ cache' = TimedCache_set(cache, feed.key, out, TRENDING_TTL, now)
    /\ cache_log' = [k \in DOMAIN cache_log \cup {feed.key} |->
                        IF k = feed.key
                        THEN [value |-> out, at |-> now, ttl |-> TRENDING_TTL]
                        ELSE cache_log[k]]
    /\ feed' = FeedIdle(feed.n)
    /\ op' = [name |-> "trending", hit |-> FALSE, key |-> feed.key, calls |-> calls,
              scored |-> scored, retained |-> retained,
              affine |-> DOMAIN profile.channel_scores, subs_set |-> subs_set,
              ratio |-> foreign_ratio_of(profile.language_scores)]
    /\ result' = Ok(out)
    /\ UNCHANGED <<now, outsideFeed>>

\* fetch_trending_vods after the lookup of the cache
FeedFinish(watched_vods, all_candidates, order) ==
    /\ feed.pc = "fetching"
    /\ \E profile \in {build_preference_profile(
                           history_map(feed.view.history), watched_vods,
                           [i \in 1..Len(feed.view.subs) |-> feed.view.subs[i].login],
                           wall(now))} :
       \E subs_set \in {subs_set_of(feed.view.subs)} :
       \E scored \in {ranked(all_candidates, order, profile, subs_set)} :
       \E retained \in {diversity_retain(scored, <<>>, profile, subs_set)} :
          FeedStored(profile, subs_set, scored, retained,
                     interleave_localized_feed(retained,
                                               foreign_ratio_of(profile.language_scores),
                                               TRENDING_MAX_ITEMS),
                     upstream_calls(feed.by_time, feed.view.subs, profile))

FeedTick ==
    /\ now < MaxFeedTicks * FeedTickSecs
    /\ now' = now + FeedTickSecs
    /\ op' = [name |-> "tick"]
    /\ result' = Ok(<<>>)
    /\ UNCHANGED <<cacheVars, feed, outsideFeed>>

DoFeedStart == \E view \in Views : FeedStart(view)
DoFeedFinish ==
    \E w \in WatchedAnswers, c \in CandidateLists, o \in MapOrders : FeedFinish(w, c, o)

NextFeed ==
    \/ DoFeedStart
    \/ DoFeedFinish
    \/ FeedTick

SpecFeed == InitFeed /\ [][NextFeed]_vars

\* the positions of seq
Positions(seq) == 1..Len(seq)

\* the last operation computed a feed (the cache did not answer)
Computed == op.name = "trending" /\ ~op.hit

\* C13 as stated: a video whose quality product length_factor * view_factor
\* is below 0.05 is never in the feed the trending operation returns.
C13_Original ==
    Computed => \A i \in Positions(result.val) : quality_of_vod(result.val[i]) >= QUALITY_GATE

\* C13, amended: a candidate whose quality product is below 0.05 scores
\* exactly that product, whatever the affinities of the profile and whether
\* its channel is subscribed, so it ranks behind every candidate that scores
\* 0.05 or more; it is not removed from the feed.
C13_GatedRankedLast ==
    Computed =>
        \A k \in Positions(op.scored) :
            quality_of_vod(op.scored[k].vod) < QUALITY_GATE =>
                /\ op.scored[k].score = quality_of_vod(op.scored[k].vod)
                /\ \A j \in Positions(op.scored) :
                      op.scored[j].score >= QUALITY_GATE => j < k

\* a gated video of a subscribed and affine channel is ranked behind others
\* and returned in the feed
C13_Witness ==
    /\ Computed
    /\ \E k \in Positions(op.scored) :
          /\ quality_of_vod(op.scored[k].vod) < QUALITY_GATE
          /\ channel_login_of(op.scored[k].vod) \in op.subs_set
          /\ channel_login_of(op.scored[k].vod) \in op.affine
          /\ k > 1
          /\ \E i \in Positions(result.val) : result.val[i] = op.scored[k].vod

\* the number of entries of scored whose channel key is login
CountOf(scored, login) ==
    Cardinality({i \in Positions(scored) : channel_login_of(scored[i].vod) = login})

\* the cap of a channel: 3 when subscribed or with a recorded affinity, else 2
CapOf(login) == IF login \in op.subs_set \cup op.affine THEN 3 ELSE 2

\* the channel keys of the candidates that entered the diversity pass
ChannelsOf(scored) == {channel_login_of(scored[i].vod) : i \in Positions(scored)}

\* C14: after the diversity pass every channel keeps at most 3 videos when it
\* is subscribed or has a recorded affinity and at most 2 otherwise; the kept
\* videos are the highest-scored of the channel, in the ranked order, and a
\* channel below its cap loses none.
C14_DiversityCaps ==
    Computed =>
        /\ \A c \in ChannelsOf(op.scored) :
              CountOf(op.retained, c) = Min(CountOf(op.scored, c), CapOf(c))
        /\ \A r \in Positions(op.retained) :
              \E k \in Positions(op.scored) :
                 /\ op.scored[k] = op.retained[r]
                 /\ \A r2 \in Positions(op.retained) :
                       r2 < r => \E k2 \in 1..(k - 1) : op.scored[k2] = op.retained[r2]
                 /\ \A d \in Positions(op.scored) :
                       /\ channel_login_of(op.scored[d].vod)
                             = channel_login_of(op.retained[r].vod)
                       /\ \A r3 \in Positions(op.retained) : op.retained[r3] # op.scored[d]
                       => op.scored[d].score <= op.retained[r].score

\* 40 candidates of 5 channels, 8 each, none subscribed or affine: 2 are kept
\* of each
C14_Witness ==
    /\ Computed
    /\ Len(op.scored) = 40
    /\ op.subs_set \cup op.affine = {}
    /\ Cardinality(ChannelsOf(op.scored)) = 5
    /\ \A c \in ChannelsOf(op.scored) :
          CountOf(op.scored, c) = 8 /\ CountOf(op.retained, c) = 2
    /\ Len(op.retained) = 10

\* ---------------------------------------------------------------------------
\* interleave_localized_feed, one iteration of its loop at a time
\*
\* feed holds the locals of the function; both records, for every item of the
\* output, whether both pools still had items when it was chosen.
\* ---------------------------------------------------------------------------

\* the i-th best item of a pool of n in language lang
PoolItem(lang, tag, i, n) ==
    [vod |-> MkVod(<<tag, DecDigits[(i \div 10) + 1], DecDigits[(i % 10) + 1]>>, 3600, 990, 0,
                   Some(lang), None, None),
     score |-> 1000 * (n - i)]

\* nf French and nx foreign candidates, the foreign ones first, each pool
\* from its lowest score to its highest
PoolsOf(nf, nx) ==
    [i \in 1..nx |-> PoolItem(<<"E", "n">>, "x", nx + 1 - i, nx)]
    \o [i \in 1..nf |-> PoolItem(<<" ", "F", "r">>, "f", nf + 1 - i, nf)]

PoolSizes == {0, 1, 3, 10, 12, 30}
Ratios == {0, 160, 250, 400, 1000}
MaxItems == {0, 5, TRENDING_MAX_ITEMS}

InterleaveStart(nf, nx, ratio, max_items) ==
    /\ feed.pc = "idle"
    /\ feed' = [pc |-> "loop", both |-> <<>>, nf |-> nf, nx |-> nx,
                s |-> interleave_entry(PoolsOf(nf, nx), ratio, max_items)]
    /\ op' = [name |-> "interleave"]
    /\ result' = Ok(<<>>)
    /\ UNCHANGED <<now, cacheVars, outsideFeed>>

InterleaveStep ==
    /\ feed.pc = "loop"
    /\ interleave_continues(feed.s)
    /\ feed' = [feed EXCEPT !.s = interleave_body(feed.s),
                            !.both = Append(@, /\ feed.s.fi < Len(feed.s.french)
                                               /\ feed.s.foi < Len(feed.s.foreign))]
    /\ op' = [name |-> "interleave_step"]
    /\ UNCHANGED <<now, result, cacheVars, outsideFeed>>

InterleaveReturn ==
    /\ feed.pc = "loop"
    /\ ~interleave_continues(feed.s)
    /\ feed' = FeedIdle(0)
    /\ op' = [name |-> "interleaved", nf |-> feed.nf, nx |-> feed.nx, ratio |-> feed.s.ratio,
              max_items |-> feed.s.max_items, feed |-> feed.s.feed]
    /\ result' = Ok(vods_of(feed.s.feed))
    /\ UNCHANGED <<now, cacheVars, outsideFeed>>

DoInterleaveStart ==
    \E nf \in PoolSizes, nx \in PoolSizes, r \in Ratios, max_items \in MaxItems :
        InterleaveStart(nf, nx, r, max_items)

NextInterleave ==
    \/ DoInterleaveStart
    \/ InterleaveStep
    \/ InterleaveReturn

SpecInterleave == InitFeed /\ [][NextInterleave]_vars

\* the items k-3..k of the output are all French / all foreign
FourFrench(fed, k) == \A i \in (k - 3)..k : is_fr(fed[i])
FourForeign(fed, k) == \A i \in (k - 3)..k : ~is_fr(fed[i])

\* C15: with foreign_ratio 0.25 and pools of at least 10 items the output has
\* no 4 consecutive French and no 4 consecutive foreign items ending at an
\* item that was chosen while both pools still had items.
C15_NoRunOfFour ==
    (feed.pc = "loop" /\ feed.s.ratio = 250 /\ feed.nf >= 10 /\ feed.nx >= 10) =>
        \A k \in 4..Len(feed.s.feed) :
            feed.both[k] => ~FourFrench(feed.s.feed, k) /\ ~FourForeign(feed.s.feed, k)

\* the loop has ended with 40 items, both pools still holding items when the
\* 39th was chosen, and three French items precede a foreign one
C15_Witness ==
    /\ feed.pc = "loop"
    /\ feed.s.ratio = 250
    /\ ~interleave_continues(feed.s)
    /\ Len(feed.s.feed) = TRENDING_MAX_ITEMS
    /\ feed.both[TRENDING_MAX_ITEMS - 1]
    /\ \A i \in 1..3 : is_fr(feed.s.feed[i])
    /\ ~is_fr(feed.s.feed[4])

\* a step that starts a request for the feed
RequestStarts == feed.pc = "idle" /\ feed'.pc \in {"idle", "fetching"} /\ feed'.n = feed.n + 1

\* a step that ends the computation of a feed
ComputationEnds == feed.pc = "fetching" /\ feed'.pc = "idle"

\* the feed last stored for the viewing state of the request is younger than
\* 900 seconds
StoredFresh(key) == key \in DOMAIN cache_log /\ now < cache_log[key].at + 900

\* C18: a request for a viewing state whose feed was stored less than 900
\* seconds before it starts returns that feed without a call of the upstream;
\* any other request computes the feed anew, calls the upstream and stores it.
C18_FeedCached ==
    [][/\ RequestStarts =>
            /\ op'.key = trending_cache_key(history_by_time(op'.view.history), op'.view.subs)
            /\ IF StoredFresh(op'.key)
               THEN /\ op'.name = "trending" /\ op'.hit
                    /\ result'.val = cache_log[op'.key].value
                    /\ op'.calls = 0
                    /\ fetched' = fetched
                    /\ cacheVars' = cacheVars
               ELSE feed'.pc = "fetching" /\ feed'.key = op'.key
       /\ ComputationEnds =>
            /\ op'.calls > 0
            /\ result'.val = cache_log'[feed.key].value
            /\ cache_log'[feed.key].at = now]_vars

\* a second request, 300 seconds or more after the store, got the stored feed
C18_Witness ==
    /\ op.name = "trending" /\ op.hit
    /\ op.key \in DOMAIN cache_log
    /\ now > cache_log[op.key].at
    /\ result.val = cache_log[op.key].value
    /\ result.val # <<>>

\* ---------------------------------------------------------------------------
\* HTTP routes of the VOD master manifest and of the variant relay
\*
\* result holds the response of the route: its status and its body.
\* ---------------------------------------------------------------------------

Response(status, body) == [ok |-> status = 200, val |-> body, status |-> status]

m3u8_response(body) == Response(200, body)
internal(msg) == Response(500, msg)
bad_request(msg) == Response(400, msg)

\* mutation: every failure of the relay is answered as an internal one
bad_request_as_internal(msg) == Response(500, msg)

\* the answers of the upstream to the video query of the route
RouteGqlResponses ==
    { [kind |-> "error"],
      [kind |-> "null"],
      Video(Some(SeekCloudfront), Some(<<"b","o","b">>), None, Some(CreatedNow)) }

InitRoutes == InitFeed

\* handle_vod_master once generate_master_playlist has reached its loop or
\* returned an error
VodMasterStarted(vod_id, gql, st) ==
    /\ gen.pc \in {"idle", "done"}
    /\ uuid_count = 0
    /\ gen' = IF st.ok THEN st.val ELSE [pc |-> "done"]
    /\ uuid_count' = IF st.ok THEN uuid_count + 1 ELSE uuid_count
    /\ op' = [name |-> "vod_master", arg |-> vod_id, upstream |-> gql.kind, inner |-> st.ok]
    /\ result' = IF st.ok THEN Response(0, <<>>) ELSE internal(st.val)
    /\ fetched' = <<>>
    /\ UNCHANGED <<now, variant_cache, uuid_seed, reg_log, outsideVod>>

HandleVodMaster(vod_id, gql) ==
    VodMasterStarted(vod_id, gql, prologue(vod_id, gql, create_serving_id(uuid_seed, uuid_count), system_time(now)))

\* handle_vod_master: Ok(playlist) => m3u8_response(playlist)
VodMasterReturns ==
    /\ gen.pc = "probe"
    /\ gen.i > Len(resolutions)
    /\ gen' = [gen EXCEPT !.pc = "done"]
    /\ op' = [name |-> "vod_master", arg |-> gen.safe_vod_id, upstream |-> "video",
              inner |-> TRUE]
    /\ result' = m3u8_response(gen.playlist)
    /\ fetched' = <<>>
    /\ UNCHANGED <<now, regVars, outsideVod>>

ProxyVariantAnswered(q_id, r) ==
    /\ op' = [name |-> "proxy_variant", arg |-> q_id, inner |-> r.res.ok]
    /\ result' = IF r.res.ok THEN m3u8_response(r.res.val) ELSE internal(r.res.val)
    /\ fetched' = r.get
    /\ UNCHANGED <<now, regVars, outsideRegistry>>

\* handle_proxy_variant
HandleProxyVariant(q_id, resp) ==
    IF ~q_id.some
    THEN /\ op' = [name |-> "proxy_variant", arg |-> q_id, inner |-> FALSE]
         /\ result' = bad_request(<<"Missing id parameter">>)
         /\ fetched' = <<>>
         /\ UNCHANGED <<now, regVars, outsideRegistry>>
    ELSE ProxyVariantAnswered(q_id, proxy_variant_playlist(variant_cache, q_id.val, resp, now))

DoHandleVodMaster == \E vod_id \in VodIds, gql \in RouteGqlResponses : HandleVodMaster(vod_id, gql)
DoHandleProxyVariant ==
    \E q_id \in {None} \cup {Some(id) : id \in ResolveIds(uuid_seed)}, resp \in RelayResponses :
        HandleProxyVariant(q_id, resp)

NextRoutes ==
    \/ DoHandleVodMaster
    \/ DoGenProbe
    \/ VodMasterReturns
    \/ DoHandleProxyVariant

SpecRoutes == InitRoutes /\ [][NextRoutes]_vars

\* a route has answered
Answered == op.name \in {"vod_master", "proxy_variant"} /\ result.status # 0

\* the identifier of the request fails the check of its route
InvalidVodId == op.name = "vod_master" /\ ~vod_id_re_is_match(trim(op.arg))
InvalidToken == op.name = "proxy_variant" /\ op.arg.some /\ ~uuid_re_is_match(trim(op.arg.val))
NoSuchVideo == op.name = "vod_master" /\ ~InvalidVodId /\ op.upstream = "null"

\* C16: the VOD manifest route answers 400 to an identifier that fails
\* ^[A-Za-z0-9_-]+$ and 404 when the upstream reports no such video, the
\* relay route answers 400 to a syntactically invalid token, and 500 is the
\* answer to upstream and internal failures only.
C16_StatusTaxonomy ==
    Answered =>
        /\ InvalidVodId => result.status = 400
        /\ NoSuchVideo => result.status = 404
        /\ InvalidToken => result.status = 400
        /\ result.status = 500 => ~InvalidVodId /\ ~NoSuchVideo /\ ~InvalidToken

\* ---------------------------------------------------------------------------
\* Batched live-status lookup
\*
\* feed holds the batch in progress: the normalized logins, the key of the
\* batch in the cache and, per login, the outcome of its spawned lookup
\* ("running" until the task has completed).
\* ---------------------------------------------------------------------------

\* ^[a-z0-9_]{2,25}$
login_re_is_match(l) ==
    /\ Len(l) >= 2 /\ Len(l) <= 25
    /\ \A i \in 1..Len(l) : l[i] \in LowerSet \cup Digits \cup {"_"}

LIVE_BATCH_CAP == 80

\* the logins trimmed and lower-cased, the invalid and the repeated ones dropped
RECURSIVE normalized_logins(_, _)
normalized_logins(logins, seen) ==
    IF logins = <<>> THEN <<>>
    ELSE IF /\ to_lowercase(trim(Head(logins))) # <<>>
            /\ login_re_is_match(to_lowercase(trim(Head(logins))))
            /\ to_lowercase(trim(Head(logins))) \notin seen
    THEN <<to_lowercase(trim(Head(logins)))>>
         \o normalized_logins(Tail(logins), seen \cup {to_lowercase(trim(Head(logins)))})
    ELSE normalized_logins(Tail(logins), seen)

\* normalized of fetch_live_status_by_logins
normalized_of(logins) == Take(normalized_logins(logins, {}), LIVE_BATCH_CAP)

\* Vec::sort on strings
RECURSIVE sorted_strings(_, _)
sorted_strings(seq, sorted) ==
    IF seq = <<>> THEN sorted
    ELSE sorted_strings(Tail(seq), insert_login(sorted, Head(seq)))

LIVE_STATUS_PREFIX == <<"l", "i", "v", "e", "_", "s", "t", "a", "t", "u", "s", "_">>
LIVE_USER_PREFIX == <<"l", "i", "v", "e", "_", "u", "s", "e", "r", "_">>

\* cache_key of fetch_live_status_by_logins
live_status_key(normalized) ==
    LIVE_STATUS_PREFIX \o create_simple_hash(join(sorted_strings(normalized, <<>>), <<"|">>))

\* cache_key of fetch_user_live_stream
live_user_key(login) == LIVE_USER_PREFIX \o login

LIVE_BATCH_TTL == 18
LIVE_NULL_TTL == 25
LIVE_USER_TTL == 20

\* the stream the upstream reports for login
StreamOf(login) == [null |-> FALSE, id |-> <<"s">> \o login, broadcaster |-> login]

\* Value::Null in the cache
JsonNull == [null |-> TRUE, id |-> <<>>, broadcaster |-> <<>>]

\* the answers of the upstream to the query of one login
LiveAnswers == {"error", "status", "offline", "live"}

\* fetch_user_live_stream: the result and the cache after the call
fetch_user_live_stream(c, login, answer, t) ==
    IF TimedCache_get(c, live_user_key(login), t).some
    THEN [res |-> Ok(IF TimedCache_get(c, live_user_key(login), t).val.null
                     THEN None
                     ELSE Some(TimedCache_get(c, live_user_key(login), t).val)),
          cache |-> c, sent |-> FALSE]
    ELSE IF answer = "error"
    THEN [res |-> Err(<<"error sending request">>), cache |-> c, sent |-> TRUE]
    ELSE IF answer = "status"
    THEN [res |-> Err(<<"HTTP ", "500">>), cache |-> c, sent |-> TRUE]
    ELSE IF answer = "offline"
    THEN [res |-> Ok(None),
          cache |-> TimedCache_set(c, live_user_key(login), JsonNull, LIVE_NULL_TTL, t),
          sent |-> TRUE]
    ELSE [res |-> Ok(Some(StreamOf(login))),
          cache |-> TimedCache_set(c, live_user_key(login), StreamOf(login), LIVE_USER_TTL, t),
          sent |-> TRUE]

\* the handle of a task: still running, or joined with the result of the task
Running == [running |-> TRUE, ok |-> FALSE, val |-> None]
Joined(res) == [running |-> FALSE, ok |-> res.ok, val |-> IF res.ok THEN res.val ELSE None]

\* Ok(Ok(Some(stream))) = handle.await
is_live(outcome) == ~outcome.running /\ outcome.ok /\ outcome.val.some

\* the loop over normalized.iter().zip(handles)
collected(normalized, outcomes) ==
    [login \in {normalized[i] : i \in {j \in Positions(normalized) : is_live(outcomes[j])}} |->
        outcomes[CHOOSE i \in Positions(normalized) : normalized[i] = login].val.val]

\* the logins clients ask the status of
LoginBatches ==
    { << <<"A", "n">>, <<" ", "a", "n", " ">>, <<"x">>, <<"b", "o", " ", "b">>, <<"c", "0">> >>,
      << <<"c", "0">> >>,
      << <<"a", "n">> >>,
      << <<"!">>, <<>> >> }

LiveTickSecs == LIVE_BATCH_TTL \div 2
MaxLiveTicks == 3
MaxBatches == 2

\* the batch has no valid login
BatchEmpty(logins) ==
    /\ feed' = FeedIdle(feed.n + 1)
    /\ op' = [name |-> "live_status", arg |-> logins, normalized |-> <<>>, hit |-> FALSE]
    /\ result' = Ok(<<>>)
    /\ UNCHANGED <<now, cacheVars, outsideFeed>>

\* the cache answered for the key of the batch
BatchHit(logins, normalized, cached) ==
    /\ feed' = FeedIdle(feed.n + 1)
    /\ op' = [name |-> "live_status", arg |-> logins, normalized |-> normalized, hit |-> TRUE]
    /\ result' = Ok(cached)
    /\ UNCHANGED <<now, cacheVars, outsideFeed>>

\* one task is spawned per login
BatchSpawned(logins, normalized, key) ==
    /\ feed' = [pc |-> "batch", n |-> feed.n + 1, arg |-> logins, normalized |-> normalized,
                key |-> key, outcomes |-> [i \in Positions(normalized) |-> Running],
                order |-> <<>>]
    /\ op' = [name |-> "live_status_spawned", arg |-> logins]
    /\ result' = Ok(<<>>)
    /\ UNCHANGED <<now, cacheVars, outsideFeed>>

\* fetch_live_status_by_logins up to the spawning of the tasks
BatchStart(logins) ==
    /\ feed.pc = "idle"
    /\ feed.n < MaxBatches
    /\ \E normalized \in {normalized_of(logins)} :
          IF normalized = <<>> THEN BatchEmpty(logins)
          ELSE \E key \in {live_status_key(normalized)} :
               \E cached \in {TimedCache_get(cache, key, now)} :
                  IF cached.some THEN BatchHit(logins, normalized, cached.val)
                  ELSE BatchSpawned(logins, normalized, key)

\* the spawned task of the i-th login runs to its end
TaskCompleted(i, r) ==
    /\ feed' = [feed EXCEPT !.outcomes[i] = Joined(r.res), !.order = Append(@, i)]
    /\ cache' = r.cache
    /\ op' = [name |-> "live_user", arg |-> feed.normalized[i], sent |-> r.sent]
    /\ result' = r.res
    /\ UNCHANGED <<now, cache_log, outsideFeed>>

TaskCompletes(i, answer) ==
    /\ feed.pc = "batch"
    /\ i \in Positions(feed.normalized)
    /\ feed.outcomes[i].running
    /\ TaskCompleted(i, fetch_user_live_stream(cache, feed.normalized[i], answer, now))

\* every handle has been awaited: the map is stored for 18 seconds and returned
BatchCollected(map) ==
    /\ cache' = TimedCache_set(cache, feed.key, map, LIVE_BATCH_TTL, now)
    /\ feed' = FeedIdle(feed.n)
    /\ op' = [name |-> "live_status", arg |-> feed.arg, normalized |-> feed.normalized,
              hit |-> FALSE, outcomes |-> feed.outcomes, order |-> feed.order]
    /\ result' = Ok(map)
    /\ UNCHANGED <<now, cache_log, outsideFeed>>

BatchCollect ==
    /\ feed.pc = "batch"
    /\ \A i \in Positions(feed.normalized) : ~feed.outcomes[i].running
    /\ BatchCollected(collected(feed.normalized, feed.outcomes))

LiveTick ==
    /\ now < MaxLiveTicks * LiveTickSecs
    /\ now' = now + LiveTickSecs
    /\ op' = [name |-> "tick"]
    /\ result' = Ok(<<>>)
    /\ UNCHANGED <<cacheVars, feed, outsideFeed>>

DoBatchStart == \E logins \in LoginBatches : BatchStart(logins)
DoTaskCompletes == \E i \in 1..2, answer \in LiveAnswers : TaskCompletes(i, answer)

NextLiveStatus ==
    \/ DoBatchStart
    \/ DoTaskCompletes
    \/ BatchCollect
    \/ LiveTick

SpecLiveStatus == InitFeed /\ [][NextLiveStatus]_vars

\* C17: the map the batched lookup returns has as keys exactly the logins,
\* among the first 80 distinct trimmed lower-cased valid inputs, whose lookup
\* returned a live stream: a returned key is always one of those inputs, an
\* invalid login or a failed or offline lookup only omits its own login, and
\* the map depends on the outcomes of the lookups alone, not on the order in
\* which they completed.
C17_LiveKeys ==
    op.name = "live_status" =>
        /\ DOMAIN result.val \subseteq
              {op.normalized[i] : i \in Positions(op.normalized)}
        /\ Len(op.normalized) <= LIVE_BATCH_CAP
        /\ \A i \in Positions(op.normalized) :
              /\ login_re_is_match(op.normalized[i])
              /\ \E j \in Positions(op.arg) : to_lowercase(trim(op.arg[j])) = op.normalized[i]
        /\ ~op.hit /\ op.normalized # <<>> =>
              /\ DOMAIN result.val =
                    {op.normalized[i] : i \in {j \in Positions(op.normalized) :
                                                  is_live(op.outcomes[j])}}
              /\ \A i \in Positions(op.normalized) :
                    is_live(op.outcomes[i]) =>
                       result.val[op.normalized[i]] = op.outcomes[i].val.val

\* ---------------------------------------------------------------------------
\* HistoryStore: the persisted document, its lock and its file
\*
\* hist holds the document in memory (mem), the document of the file (disk),
\* the tokio RwLock around mem and, per task, the call it is in.  ver counts
\* the mutations of mem; disk_ver is the count the document of the file was
\* serialized at and each call remembers the count of its own mutation.
\* ---------------------------------------------------------------------------

StoreTasks == {"s1", "s2"}

\* PersistedData (profile_image_url and the titles of the entries are left out)
EmptyDoc == [history |-> <<>>, watchlist |-> <<>>, one_sync |-> FALSE, subs |-> <<>>]
SubscribedDoc ==
    [history |-> <<>>, watchlist |-> << [vod_id |-> <<"7", "1">>, added_at |-> 1] >>,
     one_sync |-> FALSE, subs |-> << [login |-> <<"b", "o", "b">>, display_name |-> "Bob"] >>]

\* the calls of the model
StoreCalls ==
    { [fn |-> "update_history", vod_id |-> <<"7", "1">>, timecode |-> -5, duration |-> 100],
      [fn |-> "add_to_watchlist", vod_id |-> <<"7", "1">>],
      [fn |-> "remove_from_watchlist", vod_id |-> <<"7", "1">>],
      [fn |-> "update_settings", one_sync |-> Some(TRUE)],
      [fn |-> "add_sub", login |-> <<" ", "B", "o", "b", " ">>, display_name |-> "B"],
      [fn |-> "add_sub", login |-> <<"a", "m", "y">>, display_name |-> "Amy"],
      [fn |-> "add_sub", login |-> <<" ", " ">>, display_name |-> ""],
      [fn |-> "remove_sub", login |-> <<"b", "O", "b", " ">>],
      [fn |-> "get_all_history"] }

MaxStoreCalls == 2

\* mutation: the login is stored as it was sent, trimmed only
sub_login_as_sent(login) == trim(login)

\* entry.login.trim().to_lowercase()
sub_login(login) == to_lowercase(trim(login))

\* iter().any(..) over a list of records
AnyLogin(subs, login) == \E i \in Positions(subs) : subs[i].login = login
AnyVod(watchlist, vod_id) == \E i \in Positions(watchlist) : watchlist[i].vod_id = vod_id

\* the mutation a call makes under the write lock, at wall time t
mutated(doc, c, t) ==
    CASE c.fn = "update_history" ->
            [doc EXCEPT !.history =
                [k \in DOMAIN doc.history \cup {c.vod_id} |->
                    IF k = c.vod_id
                    THEN [vod_id |-> c.vod_id, timecode |-> Max(c.timecode, 0),
                          duration |-> c.duration, updated_at |-> t]
                    ELSE doc.history[k]]]
      [] c.fn = "add_to_watchlist" ->
            IF AnyVod(doc.watchlist, c.vod_id) THEN doc
            ELSE [doc EXCEPT !.watchlist = Append(@, [vod_id |-> c.vod_id, added_at |-> t])]
      [] c.fn = "remove_from_watchlist" ->
            [doc EXCEPT !.watchlist = SelectSeq(@, LAMBDA w : w.vod_id # c.vod_id)]
      [] c.fn = "update_settings" ->
            IF c.one_sync.some THEN [doc EXCEPT !.one_sync = c.one_sync.val] ELSE doc
      [] c.fn = "add_sub" ->
            IF AnyLogin(doc.subs, sub_login(c.login)) THEN doc
            ELSE [doc EXCEPT !.subs = Append(@, [login |-> sub_login(c.login),
                                                 display_name |-> c.display_name])]
      [] c.fn = "remove_sub" ->
            [doc EXCEPT !.subs = SelectSeq(@, LAMBDA e : e.login # sub_login(c.login))]

\* what a call returns from the document it reads at its end
returned(doc, c) ==
    CASE c.fn = "update_history" -> doc.history[c.vod_id]
      [] c.fn = "get_all_history" -> doc.history
      [] c.fn \in {"add_to_watchlist", "remove_from_watchlist"} -> doc.watchlist
      [] c.fn = "update_settings" -> doc.one_sync
      [] c.fn \in {"add_sub", "remove_sub"} -> doc.subs

\* mutation: the write lock is granted while readers hold the lock
store_can_write_past_readers(rw) == rw.writer = "none"

\* RwLock::write and RwLock::read are granted
store_can_write(rw) == rw.writer = "none" /\ rw.readers = {}
store_can_read(rw) == rw.writer = "none"

NoCall == [fn |-> "none"]
TaskIdle ==
    [pc |-> "idle", call |-> NoCall, ver |-> 0, wrote |-> FALSE, json |-> EmptyDoc, json_ver |-> 0]

InitStore ==
    /\ now = 0
    /\ variant_cache = TimedCache_new
    /\ uuid_seed = 0
    /\ uuid_count = 0
    /\ reg_log = <<>>
    /\ op = NoOp
    /\ result = Ok(<<>>)
    /\ fetched = <<>>
    /\ gen = GenIdle
    /\ cache = TimedCache_new
    /\ cache_log = <<>>
    /\ lock = [writer |-> NoThread, readers |-> {}]
    /\ pc = [t \in Threads |-> "idle"]
    /\ tl = [t \in Threads |-> [key |-> "", value |-> "", ttl |-> 0, expires |-> 0,
                                 seen_expires |-> 0, ret |-> None]]
    /\ worder = <<>>
    /\ feed = FeedIdle(0)
    /\ \E doc \in {EmptyDoc, SubscribedDoc} :
          hist = [pc |-> "open", mem |-> doc, disk |-> doc, ver |-> 0, disk_ver |-> 0,
                  write_ok |-> TRUE, calls |-> 0,
                  lock |-> [writer |-> "none", readers |-> {}],
                  task |-> [t \in StoreTasks |-> TaskIdle]]

outsideStore == <<now, regVars, fetched, cacheVars, concVars, gen, feed>>

\* task t enters call c
StoreCall(t, c) ==
    /\ hist.task[t].pc = "idle"
    /\ hist.calls < MaxStoreCalls
    /\ hist' = [hist EXCEPT !.calls = @ + 1,
                            !.task[t] = [pc |-> IF \/ c.fn = "get_all_history"
                                                   \/ c.fn = "add_sub" /\ sub_login(c.login) = <<>>
                                                THEN "reread" ELSE "write",
                                         call |-> c, ver |-> 0, wrote |-> FALSE,
                                         json |-> EmptyDoc, json_ver |-> 0]]
    /\ op' = [name |-> "store_call", task |-> t, call |-> c]
    /\ result' = Ok(<<>>)
    /\ UNCHANGED outsideStore

\* the block under the write lock; add_to_watchlist keeps the guard when the
\* entry is already listed and then waits for the read lock without end
StoreMutate(t) ==
    /\ hist.task[t].pc = "write"
    /\ store_can_write(hist.lock)
    /\ hist' = IF /\ hist.task[t].call.fn = "add_to_watchlist"
                  /\ AnyVod(hist.mem.watchlist, hist.task[t].call.vod_id)
               THEN [hist EXCEPT !.lock.writer = t, !.task[t].pc = "blocked"]
               ELSE [hist EXCEPT !.mem = mutated(hist.mem, hist.task[t].call, wall(now)),
                                 !.ver = @ + 1,
                                 !.task[t].ver = hist.ver + 1,
                                 !.task[t].pc = "save"]
    /\ op' = [name |-> "store_mutate", task |-> t, call |-> hist.task[t].call,
              before |-> hist.mem.subs]
    /\ result' = Ok(<<>>)
    /\ UNCHANGED outsideStore

\* save: the read lock is taken and the document serialized
StoreSerialize(t) ==
    /\ hist.task[t].pc = "save"
    /\ store_can_read(hist.lock)
    /\ hist' = [hist EXCEPT !.lock.readers = @ \cup {t},
                            !.task[t] = [@ EXCEPT !.pc = "writing", !.json = hist.mem,
                                                  !.json_ver = hist.ver]]
    /\ op' = [name |-> "store_serialize", task |-> t]
    /\ result' = Ok(<<>>)
    /\ UNCHANGED outsideStore

\* save: tokio::fs::write has returned (written: Ok or Err) and the read lock
\* is released; an error is only logged
StoreWritten(t, written) ==
    /\ hist.task[t].pc = "writing"
    /\ hist' = [hist EXCEPT !.disk = IF written THEN hist.task[t].json ELSE @,
                            !.disk_ver = IF written THEN hist.task[t].json_ver ELSE @,
                            !.write_ok = written,
                            !.lock.readers = @ \ {t},
                            !.task[t] = [@ EXCEPT !.pc = "reread", !.wrote = written]]
    /\ op' = [name |-> "store_written", task |-> t, written |-> written]
    /\ result' = Ok(<<>>)
    /\ UNCHANGED outsideStore

\* the call returns (update_history returns its entry without the lock)
StoreReturn(t) ==
    /\ hist.task[t].pc = "reread"
    /\ hist.task[t].call.fn = "update_history" \/ store_can_read(hist.lock)
    /\ hist' = [hist EXCEPT !.task[t] = [@ EXCEPT !.pc = "idle"]]
    /\ op' = [name |-> "store_return", task |-> t, call |-> hist.task[t].call,
              ver |-> hist.task[t].ver, wrote |-> hist.task[t].wrote]
    /\ result' = Ok(returned(hist.mem, hist.task[t].call))
    /\ UNCHANGED outsideStore

DoStoreCall == \E t \in StoreTasks, c \in StoreCalls : StoreCall(t, c)
DoStoreMutate == \E t \in StoreTasks : StoreMutate(t)
DoStoreSerialize == \E t \in StoreTasks : StoreSerialize(t)
DoStoreWritten == \E t \in StoreTasks, written \in BOOLEAN : StoreWritten(t, written)
DoStoreReturn == \E t \in StoreTasks : StoreReturn(t)

NextStore ==
    \/ DoStoreCall
    \/ DoStoreMutate
    \/ DoStoreSerialize
    \/ DoStoreWritten
    \/ DoStoreReturn

SpecStore == InitStore /\ [][NextStore]_vars

\* no call of the store is in progress
AllReturned == \A t \in StoreTasks : hist.task[t].pc = "idle"

\* a call that changed the document under the write lock has just returned
MutationReturned == op.name = "store_return" /\ op.ver > 0

LoginsOf(subs) == [i \in Positions(subs) |-> subs[i].login]

\* an add_sub call has just run its block under the write lock
SubAdded == op.name = "store_mutate" /\ op.call.fn = "add_sub"

\* C20: every stored login is trimmed, lower-cased and non-empty, no login
\* is stored twice, and add_sub of a login that is already stored, in any
\* letter case and with any surrounding white space, leaves the list as it was.
C20_SubsNormalized ==
    /\ \A i \in Positions(hist.mem.subs) :
          /\ hist.mem.subs[i].login = to_lowercase(trim(hist.mem.subs[i].login))
          /\ hist.mem.subs[i].login # <<>>
          /\ \A j \in Positions(hist.mem.subs) :
                hist.mem.subs[j].login = hist.mem.subs[i].login => j = i
    /\ SubAdded /\ (\E i \in Positions(op.before) :
                       op.before[i].login = to_lowercase(trim(op.call.login)))
          => hist.mem.subs = op.before

\* " Bob " was added to a list that held "bob", after another login had been
\* added by a concurrent call
C20_Witness ==
    /\ SubAdded
    /\ op.call.login = <<" ", "B", "o", "b", " ">>
    /\ LoginsOf(op.before) = << <<"b", "o", "b">>, <<"a", "m", "y">> >>
    /\ hist.mem.subs = op.before
    /\ \E t \in StoreTasks : hist.task[t].pc \in {"save", "writing", "reread"}
                             /\ hist.task[t].call.login = <<"a", "m", "y">>

\* the call of task t can take its next step: it waits for nothing, or the
\* lock it waits for can be granted
TaskCanStep(t) ==
    \/ hist.task[t].pc = "write" /\ store_can_write(hist.lock)
    \/ hist.task[t].pc = "save" /\ store_can_read(hist.lock)
    \/ hist.task[t].pc = "writing"
    \/ hist.task[t].pc = "reread"
          /\ (hist.task[t].call.fn = "update_history" \/ store_can_read(hist.lock))

\* C21: while a call of the store is in progress some call in progress can
\* take its next step, so every call returns and releases its lock; an
\* add_to_watchlist that has returned has returned the watchlist, and nobody
\* holds the lock once every call has returned.
C21_EveryCallReturns ==
    /\ ~AllReturned => \E t \in StoreTasks : TaskCanStep(t)
    /\ AllReturned => hist.lock.writer = "none" /\ hist.lock.readers = {}
    /\ op.name = "store_return" /\ op.call.fn = "add_to_watchlist"
          => result.val = hist.mem.watchlist

\* C22: every probe request of the VOD manifest generation goes to a
\* candidate URL that validate_variant_target_url accepts.
C22_ProbesOnlyValidated ==
    op.name = "probe" => validated(op.arg).ok

\* ---------------------------------------------------------------------------
\* The manifest specification: one generate_master_playlist request while
\* the clock advances, then resolutions of the tokens it registered
\* ---------------------------------------------------------------------------

\* the answers of the video query and of the probes
ManifestGql ==
    { Video(Some(SeekCloudfront), Some(<<"b","o","b">>), None, Some(CreatedNow)),
      Video(Some(SeekCloudfront), Some(<<"b","o","b">>), Some(UPLOAD), Some(CreatedEightDays)),
      Video(Some(SeekEvil), Some(<<"b","o","b">>), None, Some(CreatedNow)) }

ManifestProbes ==
    { ProbeOutcome("status", <<>>, NoInit),
      ProbeOutcome("body", <<"a",".","t","s">>, NoInit) }

MaxManifestTicks == 2

InitManifest == InitFeed

\* the clock advances while the request waits for an answer, and afterwards
ManifestTick ==
    /\ gen.pc \in {"probe", "done"}
    /\ now < MaxManifestTicks * RegistryTick
    /\ now' = now + RegistryTick
    /\ op' = [name |-> "tick", arg |-> <<>>]
    /\ result' = Ok(<<>>)
    /\ fetched' = <<>>
    /\ UNCHANGED <<regVars, outsideRegistry>>

\* a token of the returned manifest is resolved
ManifestResolve(token) ==
    /\ gen.pc = "done"
    /\ Resolve(token)

DoManifestStart == \E gql \in ManifestGql : GenStart(<<" ", "4", "2">>, gql)
DoManifestProbe == \E resp \in ManifestProbes : GenProbe(resp)
DoManifestResolve == \E token \in DOMAIN reg_log : ManifestResolve(token)

NextManifest ==
    \/ DoManifestStart
    \/ DoManifestProbe
    \/ GenFinish
    \/ ManifestTick
    \/ DoManifestResolve

SpecManifest == InitManifest /\ [][NextManifest]_vars

\* the URI lines of a playlist, in order
UriLines(playlist) == SelectSeq(playlist, LAMBDA l : l.tag = "")
UriOf(playlist, j) == Attr(UriLines(playlist)[j], "URI")

\* the position in resolutions of the descriptor with quality name q (0: none)
DescriptorOf(q) ==
    IF \E i \in 1..Len(resolutions) : quality_of(resolutions[i]) = q
    THEN CHOOSE i \in 1..Len(resolutions) : quality_of(resolutions[i]) = q
    ELSE 0

\* the candidate URL of descriptor i in the request g
CandidateOf(g, i) ==
    build_stream_url(g.domain, g.vod_special_id, resolutions[i].res_key, g.safe_vod_id,
                     g.broadcast_type, g.days_diff, g.channel_login)

\* variant j of the manifest of request g points at token
ListedAs(g, j, token) ==
    /\ UriOf(g.playlist, j) = PROXY_PATH \o urlencoding_simple(token)
    /\ DescriptorOf(Variants(g.playlist)[j]) > 0
    /\ reg_log[token].url = CandidateOf(g, DescriptorOf(Variants(g.playlist)[j]))

\* the tokens the returned manifest lists
Listed(g) ==
    {token \in DOMAIN reg_log : \E j \in 1..Len(Variants(g.playlist)) : ListedAs(g, j, token)}

Returned == gen.pc = "done" /\ "playlist" \in DOMAIN gen

\* C23: in a returned manifest every variant has one URI line, the proxy path
\* followed by a token registered during the request for the candidate URL of
\* the variant's descriptor, and the cache holds the sanitized candidate
\* under that token until 300 seconds after the registration; the variants
\* follow the order of the descriptors; no descriptor whose candidate the
\* validation rejects is listed; and a resolution of a listed token returns
\* the sanitized candidate while fewer than 300 seconds have passed since
\* its registration and fails afterwards.
C23_ManifestVariants ==
    /\ Returned =>
          /\ Len(UriLines(gen.playlist)) = Len(Variants(gen.playlist))
          /\ \A j \in 1..Len(Variants(gen.playlist)) :
                /\ \E token \in DOMAIN reg_log :
                      /\ ListedAs(gen, j, token)
                      /\ validated(reg_log[token].url).ok
                      /\ variant_cache[VariantKey(token)] =
                            [value |-> validated(reg_log[token].url).val,
                             expires |-> reg_log[token].at + VARIANT_TTL]
                /\ \A k \in 1..Len(Variants(gen.playlist)) :
                      j < k => DescriptorOf(Variants(gen.playlist)[j])
                                  < DescriptorOf(Variants(gen.playlist)[k])
          /\ \A i \in 1..Len(resolutions) :
                ~validated(CandidateOf(gen, i)).ok
                   => \A j \in 1..Len(Variants(gen.playlist)) :
                         Variants(gen.playlist)[j] # quality_of(resolutions[i])
    /\ Returned /\ op.name = "resolve" /\ op.arg \in Listed(gen) =>
          IF now < reg_log[op.arg].at + VARIANT_TTL
          THEN result = Ok(validated(reg_log[op.arg].url).val)
          ELSE ~result.ok

\* a manifest of an upload older than 7 days lists 1080p and 160p30 (here
\* named through chunked and 160p30), registered 150 seconds apart, and the
\* later token has just been resolved after the earlier one expired
C23_Witness ==
    /\ Returned
    /\ gen.broadcast_type = UPLOAD
    /\ Variants(gen.playlist) = << <<"1","0","8","0","p">>, <<"1","6","0","p","3","0">> >>
    /\ op.name = "resolve" /\ op.arg \in Listed(gen)
    /\ result.ok
    /\ now = 300
    /\ reg_log[op.arg].at = 150
    /\ \E token \in Listed(gen) : reg_log[token].at = 0

\* ---------------------------------------------------------------------------
\* The calendar, counted day by day, and the text of an instant
\* ---------------------------------------------------------------------------

IsLeap(y) == y % 4 = 0 /\ (y % 100 # 0 \/ y % 400 = 0)
YearLen(y) == IF IsLeap(y) THEN 366 ELSE 365
MonthLen(y, m) ==
    IF m = 2 THEN (IF IsLeap(y) THEN 29 ELSE 28)
    ELSE IF m \in {4, 6, 9, 11} THEN 30 ELSE 31

\* the days between 1970-01-01 and the first day of year y
DaysBeforeYear(y) ==
    IF y >= 1970
    THEN 365 * (y - 1970) + Cardinality({k \in 1970..(y - 1) : IsLeap(k)})
    ELSE 0 - (365 * (1970 - y) + Cardinality({k \in y..1969 : IsLeap(k)}))

RECURSIVE DaysBeforeMonth(_, _)
DaysBeforeMonth(y, m) == IF m = 1 THEN 0 ELSE DaysBeforeMonth(y, m - 1) + MonthLen(y, m - 1)

\* the day count of a calendar date
EpochDay(y, m, d) == DaysBeforeYear(y) + DaysBeforeMonth(y, m) + d - 1

\* an instant of the calendar: date, time of day, hundredths of a second
Instant(y, mo, d, h, mi, sec, cs) ==
    [y |-> y, mo |-> mo, d |-> d, h |-> h, mi |-> mi, sec |-> sec, cs |-> cs]

\* its whole seconds since the epoch
EpochSecs(at) == EpochDay(at.y, at.mo, at.d) * DAY_SECS + at.h * 3600 + at.mi * 60 + at.sec

\* n written with at least w digits
Padded(n, w) == Rep("0", w - Len(ToDecimal(n))) \o ToDecimal(n)

\* YYYY-MM-DDTHH:MM:SS[.fff]Z
Iso8601(at) ==
    Padded(at.y, 4) \o <<"-">> \o Padded(at.mo, 2) \o <<"-">> \o Padded(at.d, 2) \o <<"T">>
    \o Padded(at.h, 2) \o <<":">> \o Padded(at.mi, 2) \o <<":">> \o Padded(at.sec, 2)
    \o (IF at.cs = 0 THEN <<>> ELSE <<".">> \o Padded(at.cs, 2) \o <<"0">>) \o <<"Z">>

\* the time from instant at to the clock, in hundredths of a second
Elapsed(at, clock) == (clock.secs - EpochSecs(at)) * 100 + clock.cs - at.cs

\* the instants the createdAt texts of the video query stand for
CreatedInstants ==
    { Instant(2024, 1, 10, 0, 0, 0, 0), Instant(2024, 1, 2, 0, 0, 0, 0),
      Instant(2024, 1, 3, 0, 0, 1, 0), Instant(2024, 1, 3, 0, 0, 0, 50) }

HasInstant(text) == \E at \in CreatedInstants : Iso8601(at) = text
InstantOf(text) == CHOOSE at \in CreatedInstants : Iso8601(at) = text

\* the three forms of a candidate URL
HighlightForm(g, res_key) ==
    <<"h","t","t","p","s",":","/","/">> \o g.domain \o <<"/">> \o g.vod_special_id \o <<"/">>
    \o res_key \o <<"/","h","i","g","h","l","i","g","h","t","-">> \o g.safe_vod_id
    \o <<".","m","3","u","8">>
OwnerForm(g, res_key) ==
    <<"h","t","t","p","s",":","/","/">> \o g.domain \o <<"/">> \o g.channel_login \o <<"/">>
    \o g.safe_vod_id \o <<"/">> \o g.vod_special_id \o <<"/">> \o res_key
    \o <<"/","i","n","d","e","x","-","d","v","r",".","m","3","u","8">>
DefaultForm(g, res_key) ==
    <<"h","t","t","p","s",":","/","/">> \o g.domain \o <<"/">> \o g.vod_special_id \o <<"/">>
    \o res_key \o <<"/","i","n","d","e","x","-","d","v","r",".","m","3","u","8">>

\* the form the claim gives a candidate of request g whose video has age
FormFor(g, res_key, age) ==
    IF g.broadcast_type = <<"h","i","g","h","l","i","g","h","t">> THEN HighlightForm(g, res_key)
    ELSE IF g.broadcast_type = <<"u","p","l","o","a","d">> /\ age > 7 * DAY
    THEN OwnerForm(g, res_key)
    ELSE DefaultForm(g, res_key)

\* a candidate of a video with a createdAt has just been probed
CandidateProbed == op.name = "probe" /\ gen.pc = "probe" /\ HasInstant(gen.created_at)

CalendarStarts ==
    { <<1969, 12, 28>>, <<1972, 2, 1>>, <<1900, 2, 1>>, <<2000, 2, 1>>, <<2100, 2, 1>>,
      <<2023, 1, 20>>, <<2023, 3, 25>>, <<2023, 5, 25>>, <<2023, 7, 25>>, <<2023, 9, 25>>,
      <<2023, 11, 25>>, <<2024, 2, 1>> }

MaxCalendarDays == 70

\* the times of day and fractions of the timestamps, and the time from the
\* timestamp to the clock: nothing, a quarter of a second, 7 days and half
\* a second, 9 days, 60 days
TimesOfDay == { <<0, 0, 0>>, <<23, 59, 59>> }
Fractions == {0, 50}
ClockAfter ==
    { [secs |-> 0, cs |-> 0], [secs |-> 0, cs |-> 25], [secs |-> 7 * DAY_SECS, cs |-> 50],
      [secs |-> 9 * DAY_SECS, cs |-> 0], [secs |-> AGE_CAP_DAYS * DAY_SECS, cs |-> 0] }

\* the years whose seconds since the epoch fit the integers of the checker
\* (the code counts them in an i64)
SecondsFit(y) == y \in 1970..2037

\* the calendar date after <<y, m, d>>
NextDate(date) ==
    IF date[3] < MonthLen(date[1], date[2]) THEN <<date[1], date[2], date[3] + 1>>
    ELSE IF date[2] < 12 THEN <<date[1], date[2] + 1, 1>>
    ELSE <<date[1] + 1, 1, 1>>

\* the clock that is `after` later than the instant at
ClockOf(at, after) ==
    [secs |-> EpochSecs(at) + after.secs + (at.cs + after.cs) \div 100,
     cs |-> (at.cs + after.cs) % 100]

InitCalendar == InitFeed

\* the walk starts: days_from_civil of the first date
CalendarStart(date) ==
    /\ gen.pc = "idle"
    /\ gen' = [pc |-> "date", date |-> date, walked |-> 0,
               days |-> days_from_civil(date[1], date[2], date[3]),
               before |-> days_from_civil(date[1], date[2], date[3]) - 1]
    /\ op' = [name |-> "date", arg |-> date]
    /\ result' = Ok(days_from_civil(date[1], date[2], date[3]))
    /\ UNCHANGED <<now, regVars, fetched, outsideVod>>

\* the walk moves to the next calendar date: days_from_civil of it
CalendarStep(date) ==
    /\ gen.pc = "date"
    /\ gen.walked < MaxCalendarDays
    /\ gen' = [pc |-> "date", date |-> date, walked |-> gen.walked + 1,
               days |-> days_from_civil(date[1], date[2], date[3]),
               before |-> gen.days]
    /\ op' = [name |-> "date", arg |-> date]
    /\ result' = Ok(days_from_civil(date[1], date[2], date[3]))
    /\ UNCHANGED <<now, regVars, fetched, outsideVod>>

\* chrono_days_since_str of the text of instant at, the system clock being clock
AgeComputed(at, clock) ==
    /\ gen.pc = "date"
    /\ SecondsFit(at.y)
    /\ op' = [name |-> "age", arg |-> Iso8601(at), at |-> at, clock |-> clock]
    /\ result' = Ok(chrono_days_since_str(Iso8601(at), clock))
    /\ UNCHANGED <<now, regVars, fetched, gen, outsideVod>>

DoCalendarStart == \E date \in CalendarStarts : CalendarStart(date)
DoCalendarStep ==
    /\ gen.pc = "date"
    /\ \E date \in {NextDate(gen.date)} : CalendarStep(date)
DoAgeComputed ==
    /\ gen.pc = "date"
    /\ \E tod \in TimesOfDay, cs \in Fractions, after \in ClockAfter :
          \E at \in {Instant(gen.date[1], gen.date[2], gen.date[3],
                               tod[1], tod[2], tod[3], cs)} :
              AgeComputed(at, ClockOf(at, after))

NextCalendar ==
    \/ DoCalendarStart
    \/ DoCalendarStep
    \/ DoAgeComputed

SpecCalendar == InitCalendar /\ [][NextCalendar]_vars

\* the day count: 1970-01-01 is day 0, the count agrees with the calendar
\* counted day by day, and a date has the count of the date before it plus one
DayCountExact ==
    gen.pc = "date" =>
        /\ gen.days = EpochDay(gen.date[1], gen.date[2], gen.date[3])
        /\ gen.days = gen.before + 1
        /\ gen.date = <<1970, 1, 1>> => gen.days = 0

\* C30 as stated: the day difference is the exact time elapsed from the
\* timestamp to the clock (in days), and the day count is exact.
C30_Original ==
    /\ op.name = "age" => result.val = Elapsed(op.at, op.clock)
    /\ DayCountExact

\* C30, amended: the day difference is the time elapsed from the whole
\* second of the timestamp (its fraction .fff is dropped) to the clock,
\* capped at 60 days, and the day count is exact.
C30_DayDifference ==
    /\ op.name = "age" =>
          /\ result.val = Min(Elapsed([op.at EXCEPT !.cs = 0], op.clock), AGE_CAP_DAYS * DAY)
          /\ op.at.cs = 0 => result.val = Elapsed(op.at, op.clock)
    /\ DayCountExact

\* 2024-01-01T00:00:00Z against a clock at 2024-01-10T00:00:00Z has given
\* 9.0 days, on a walk that has crossed the end of 2023
C30_Witness ==
    /\ op.name = "age"
    /\ op.arg = <<"2","0","2","4","-","0","1","-","0","1","T","0","0",":","0","0",":","0","0","Z">>
    /\ op.clock = [secs |-> EpochSecs(Instant(2024, 1, 10, 0, 0, 0, 0)), cs |-> 0]
    /\ result.val = 9 * DAY
    /\ gen.date = <<2024, 1, 1>> /\ gen.walked = 37
    /\ gen.days = 19723


\* ---------------------------------------------------------------------------
\* The relay on playlists of every shape
\* ---------------------------------------------------------------------------

\* the lines upstream playlists are made of: tags, an empty line, relative and
\* absolute references, a reference carrying the ad marker, one ended by a
\* carriage return, and a relative reference whose name begins with http
RelayLines ==
    { <<"#","E">>, <<>>, <<"1",".","t","s">>, <<"h","t","t","p",":","/","/","a","/","2">>,
      <<"h","t","t","p","s",":","/","/","a","/","3">>,
      <<"1","-","u","n","m","u","t","e","d",".","t","s">>, <<"2",".","t","s","\r">>,
      <<"h","t","t","p","1",".","t","s">>, <<"#","M",":","U","R","I","=","\"","i","\"">> }

MaxRelayLines == 2

RelayBodies ==
    {join(ls, <<"\n">>) : ls \in UNION {[1..n -> RelayLines] : n \in 1..MaxRelayLines}}

RelayTargets == {v.val : v \in {validated(UrlVodExact), validated(UrlLiveHls)}}

RelayUpstream ==
    { [kind |-> "error", body |-> <<>>], [kind |-> "status", body |-> <<>>] }
    \cup {[kind |-> "ok", body |-> b] : b \in RelayBodies}

InitRelay == InitFeed

\* proxy_variant_playlist on a resolved target: the GET and the rewriting
RelayPlaylist(target_url, resp) ==
    /\ gen' = [pc |-> "relayed", target |-> target_url, kind |-> resp.kind,
               body |-> resp.body]
    /\ op' = [name |-> "relay", arg |-> target_url]
    /\ \E r \in {relay_target(Ok(target_url), resp)} :
          /\ result' = r.res
          /\ fetched' = r.get
    /\ UNCHANGED <<now, regVars, outsideVod>>

DoRelayPlaylist == \E target_url \in RelayTargets, resp \in RelayUpstream :
                       RelayPlaylist(target_url, resp)

NextRelay ==
    \/ DoRelayPlaylist

SpecRelay == InitRelay /\ [][NextRelay]_vars

\* an absolute URL: a scheme of the web followed by ://
IsAbsoluteUrl(l) ==
    \/ starts_with(l, HTTP \o <<":","/","/">>)
    \/ starts_with(l, HTTPS \o <<":","/","/">>)

\* the target URL up to and including its final slash
DirectoryOf(u) ==
    LET I == {i \in 1..Len(u) : u[i] = "/"}
    IN  SubSeq(u, 1, CHOOSE i \in I : \A j \in I : i >= j)

\* C25: in the text the relay returns, every non-empty line not starting with
\* '#' is an absolute URL, equal to the fetched line when that was absolute
\* and to the target's directory followed by the fetched line otherwise, and
\* the text has as many lines as the fetched playlist.
C25_RelayedLines ==
    (gen.pc = "relayed" /\ gen.kind = "ok") =>
        /\ result.ok
        /\ LET ins == split(gen.body, "\n")
               outs == split(result.val, "\n")
           IN  /\ Len(outs) = Len(ins)
               /\ \A i \in 1..Len(outs) :
                     (outs[i] # <<>> /\ ~starts_with(outs[i], <<"#">>)) =>
                         /\ IsAbsoluteUrl(outs[i])
                         /\ IF IsAbsoluteUrl(ins[i]) THEN outs[i] = ins[i]
                            ELSE outs[i] = DirectoryOf(gen.target) \o ins[i]


\* ---------------------------------------------------------------------------
\* interleave_localized_feed: its length, its order and its rule
\* ---------------------------------------------------------------------------

\* fed is pre followed by one more item
AppendsOne(pre, fed) == Len(fed) = Len(pre) + 1 /\ SubSeq(fed, 1, Len(pre)) = pre

\* no candidate twice, every item a candidate of the call
EachAtMostOnce(fed, candidates) ==
    /\ \A i \in 1..Len(fed) : \E k \in 1..Len(candidates) : candidates[k] = fed[i]
    /\ \A i, j \in 1..Len(fed) : fed[i] = fed[j] => i = j

\* the items of one pool come from the highest score to the lowest
PoolOrdered(fed) ==
    \A i, j \in 1..Len(fed) :
        (i < j /\ is_fr(fed[i]) = is_fr(fed[j])) => fed[i].score >= fed[j].score

\* C26: the loop of interleave_localized_feed appends exactly one candidate in
\* each iteration and never runs past max_items items or past the two pools;
\* when it ends the output has min(max_items, French + foreign candidates)
\* items (40 in the trending feed), no candidate twice, and the candidates of
\* each pool from the highest score to the lowest.
C26_InterleaveEnds ==
    [][/\ (feed.pc = "loop" /\ feed'.pc = "loop") =>
             /\ AppendsOne(feed.s.feed, feed'.s.feed)
             /\ Len(feed'.s.feed) <= Min(feed.s.max_items, feed.nf + feed.nx)
             /\ feed'.s.fi + feed'.s.foi = Len(feed'.s.feed)
       /\ (feed.pc = "loop" /\ feed'.pc = "idle") =>
             /\ result'.val = vods_of(feed.s.feed)
             /\ Len(result'.val) = Min(feed.s.max_items, feed.nf + feed.nx)
             /\ EachAtMostOnce(feed.s.feed,
                               [k \in 1..(feed.nf + feed.nx) |->
                                   PoolsOf(feed.nf, feed.nx)[k]])
             /\ PoolOrdered(feed.s.feed)]_vars

\* pools of 30 and 30 cut at 40 items, the two pools mixed
C26_Witness ==
    /\ op.name = "interleaved"
    /\ op.nf = 30 /\ op.nx = 30
    /\ op.max_items = TRENDING_MAX_ITEMS
    /\ Len(result.val) = TRENDING_MAX_ITEMS
    /\ \E i, j \in 1..Len(op.feed) : is_fr(op.feed[i]) /\ ~is_fr(op.feed[j])

\* the last 4 chosen items exist and are all French / all foreign
LastFourFrench(fed) == Len(fed) >= 4 /\ FourFrench(fed, Len(fed))
LastFourForeign(fed) == Len(fed) >= 4 /\ FourForeign(fed, Len(fed))

\* the number of foreign items chosen so far
ForeignCount(fed) == Cardinality({i \in 1..Len(fed) : ~is_fr(fed[i])})

\* the rule as specified: TRUE when the next item is foreign, nfr French and
\* nfo foreign candidates being left
RuleChoosesForeign(fed, nfr, nfo, ratio) ==
    LET wants == /\ ~LastFourForeign(fed)
                 /\ \/ ForeignCount(fed) < ((Len(fed) + 1) * ratio) \div 1000
                    \/ nfr = 0
                    \/ LastFourFrench(fed)
    IN  IF nfo = 0 THEN FALSE
        ELSE IF nfr = 0 THEN TRUE
        ELSE wants

\* C27: for every foreign_ratio in [0.16, 0.40] each item the loop appends is
\* foreign exactly when the specified rule chooses foreign for that position.
C27_ChoicesFollowRule ==
    [][(feed.pc = "loop" /\ feed'.pc = "loop" /\ feed.s.ratio \in 160..400) =>
          LET fed == feed.s.feed
              chosen == feed'.s.feed[Len(feed'.s.feed)]
          IN  ~is_fr(chosen)
                = RuleChoosesForeign(fed, feed.nf - (Len(fed) - ForeignCount(fed)),
                                     feed.nx - ForeignCount(fed), feed.s.ratio)]_vars

\* a foreign item chosen after four French ones while the foreign count had
\* reached its target, and later a French pool that ran out
C27_Witness ==
    /\ op.name = "interleaved"
    /\ op.ratio = 160
    /\ op.nf = 10 /\ op.nx = 30
    /\ Len(op.feed) = TRENDING_MAX_ITEMS
    /\ FourFrench(op.feed, 4)
    /\ ~is_fr(op.feed[5])
    /\ FourForeign(op.feed, TRENDING_MAX_ITEMS)


\* ---------------------------------------------------------------------------
\* The view factor and the French baseline on their inputs
\*
\* gen holds the input and what the code computed from it.
\* ---------------------------------------------------------------------------

MaxViews == 60

\* the watched part of a video's history entry: absent, or its timecode in a
\* duration of 1800 seconds (weights 0.05, 0.595, 0.6 and 1.0)
Watched == {0, 90, 1071, 1080, 1800}

FrenchIds == << <<"f","1">>, <<"f","2">>, <<"f","3">> >>
EnglishId == <<"e","1">>

WatchedVods ==
    [i \in 1..3 |-> MkVod(FrenchIds[i], 3600, 990, 0, Some(<<"F","R"," ">>), None, None)]
    \o << MkVod(EnglishId, 3600, 990, 0, Some(<<"e","n">>), None, None) >>

\* the history in which the i-th French video was watched up to tcs[i] and
\* the English one up to en, all of them at the time of the call
HistoryOf(tcs, en, now_s) ==
    LET Tc(id) == IF id = EnglishId THEN en
                  ELSE tcs[CHOOSE i \in 1..3 : FrenchIds[i] = id]
        ids == {id \in {FrenchIds[i] : i \in 1..3} \cup {EnglishId} : Tc(id) > 0}
    IN  [id \in ids |-> [duration |-> 1800, timecode |-> Tc(id), updated_at |-> now_s]]

InitScoring == InitFeed

\* the view factor of a candidate with view_count views, and of one view less
ViewsScored(view_count) ==
    /\ gen' = [pc |-> "views", views |-> view_count, factor |-> view_factor(view_count),
               below |-> view_factor(Max(view_count - 1, 0))]
    /\ op' = [name |-> "view_factor", arg |-> view_count]
    /\ result' = Ok(view_factor(view_count))
    /\ UNCHANGED <<now, regVars, fetched, outsideVod>>

\* build_preference_profile on a history; a is the French score before the
\* baseline
ProfileBuilt(history, now_s) ==
    /\ \E p \in {build_preference_profile(history, WatchedVods, <<>>, now_s)} :
          /\ gen' = [pc |-> "profile",
                     a |-> GetOr0(profile_of_watched(EmptyProfile, history, WatchedVods,
                                                     now_s).language_scores, FR),
                     fr |-> GetOr0(p.language_scores, FR)]
          /\ result' = Ok(p)
    /\ op' = [name |-> "profile", arg |-> history]
    /\ UNCHANGED <<now, regVars, fetched, outsideVod>>

DoViewsScored == \E view_count \in 0..MaxViews : ViewsScored(view_count)
DoProfileBuilt ==
    \E tcs \in [1..3 -> Watched], en \in {0, 1800} :
        \E history \in {HistoryOf(tcs, en, WALL_EPOCH)} : ProfileBuilt(history, WALL_EPOCH)

NextScoring ==
    \/ DoViewsScored
    \/ DoProfileBuilt

SpecScoring == InitScoring /\ [][NextScoring]_vars

\* C28 as stated: 0.04 at 0 views, 0.5 at 5 views, 1.0 from 50 views, on the
\* line from (0, 0.04) to (5, 0.5) and on the line from (5, 0.5) to (50, 1.0)
\* in between, and never decreasing.
C28_Original ==
    gen.pc = "views" =>
        /\ gen.views = 0 => gen.factor = 40
        /\ gen.views = 5 => gen.factor = 500
        /\ gen.views >= 50 => gen.factor = 1000
        /\ gen.views \in 0..5 => 5 * (gen.factor - 40) = 460 * gen.views
        /\ gen.views \in 5..50 => 45 * (gen.factor - 500) = 500 * (gen.views - 5)
        /\ gen.below <= gen.factor

\* C28, amended: the view factor is 0.04 at 0 views, 0.04 + 0.092 v for 1 to 4
\* views, 0.5 + 0.01 v for 5 to 49 views (0.55 at exactly 5 views, 0.99 at 49)
\* and 1.0 from 50 views; the first segment ends at 0.408 and the second
\* starts at 0.55, so the two do not meet at 5 views; the factor never
\* decreases when the view count grows.
C28_ViewFactor ==
    gen.pc = "views" =>
        /\ gen.views = 0 => gen.factor = 40
        /\ gen.views \in 1..4 => gen.factor = 40 + 92 * gen.views
        /\ gen.views \in 5..49 => gen.factor = 500 + 10 * gen.views
        /\ gen.views >= 50 => gen.factor = 1000
        /\ gen.below <= gen.factor

\* the factor of 5 views, above the one of 4 views by more than a step of
\* either segment
C28_Witness ==
    /\ gen.pc = "views"
    /\ gen.views = 5
    /\ gen.factor = 550
    /\ gen.below = 408

\* C29 as stated: the French affinity of a built profile is max(a, 1.2).
C29_Original ==
    gen.pc = "profile" => gen.fr = Max(gen.a, 1200)

\* C29, amended: the French affinity of a built profile is a + 1.2 when the
\* accumulated affinity a is below 1.2 and a otherwise; it is never below 1.2
\* and is below 2.4 whenever a was raised.
C29_FrenchBaseline ==
    gen.pc = "profile" =>
        /\ gen.fr = IF gen.a < 1200 THEN gen.a + 1200 ELSE gen.a
        /\ gen.fr >= 1200
        /\ gen.a < 1200 => gen.fr < 2400

\* French videos watched for an affinity of 1.195: the profile holds 2.395
C29_Witness ==
    /\ gen.pc = "profile"
    /\ gen.a = 1195
    /\ gen.fr = 2395

====
